---- MODULE Spec2Model ----
(***************************************************************************)
(* A model of package cluster (src/cluster/cluster.go): the parallel       *)
(* executor ExecuteClusterCommandWithRetries with its report               *)
(* (NewRemoteOutput), and the topology built by NewCluster.                *)
(*                                                                         *)
(* Conventions.                                                            *)
(*  - Go slices are sequences; Go index i is position i+1 here.            *)
(*  - An error value is a number: 0 is nil, k > 0 is the error returned by *)
(*    the process of attempt k.  Stdout/Stderr text is a number too: 0 is  *)
(*    the empty string, k > 0 is what attempt k's process wrote.           *)
(*  - RetryError is the value errors.Join builds: a record [errs |-> s]    *)
(*    over the sequence s of its non-nil operands, each a wrapped attempt  *)
(*    error or again such a record; nil is the record with no operand      *)
(*    (errors.Join returns nil exactly when every operand is nil).         *)
(***************************************************************************)
EXTENDS Integers, Sequences, FiniteSets, TLC

\* ------------------------------------------------------------------------
\* Bounds of the model
\* ------------------------------------------------------------------------
MaxCmds == 3
MaxAttempts == 3

\* maxAttempts is a Go int: non-positive values are legal arguments.
AttemptChoices == {0 - 1} \cup (0 .. MaxAttempts)

\* ------------------------------------------------------------------------
\* Scope: a uint8 bit mask with one bit per axis
\* ------------------------------------------------------------------------
ScopeWidth == 8
ScopeValues == 0 .. (2 ^ ScopeWidth - 1)

ON_SEGMENTS == 0
ON_HOSTS == 1
EXCLUDE_COORDINATOR == 0
INCLUDE_COORDINATOR == 2
ON_REMOTE == 0
ON_LOCAL == 4
EXCLUDE_MIRRORS == 0
INCLUDE_MIRRORS == 8

RECURSIVE BitAnd(_, _, _)
\* a & b over the w low bits
BitAnd(a, b, w) ==
    IF w = 0 THEN 0
    ELSE (a % 2) * (b % 2) + 2 * BitAnd(a \div 2, b \div 2, w - 1)

\* scope & mask, on Scope values
And(scope, mask) == BitAnd(scope, mask, ScopeWidth)

scopeIsSegments(scope) == And(scope, ON_HOSTS) = ON_SEGMENTS

scopeIsHosts(scope) == And(scope, ON_HOSTS) = ON_HOSTS

\* Faulty variant of scopeExcludesCoordinator: the mirror bit is tested.
scopeExcludesCoordinatorByMirrorBit(scope) ==
    And(scope, INCLUDE_MIRRORS) = EXCLUDE_COORDINATOR

scopeExcludesCoordinator(scope) ==
    And(scope, INCLUDE_COORDINATOR) = EXCLUDE_COORDINATOR

scopeIncludesCoordinator(scope) ==
    And(scope, INCLUDE_COORDINATOR) = INCLUDE_COORDINATOR

scopeIsRemote(scope) == And(scope, ON_LOCAL) = ON_REMOTE

\* Faulty variant of scopeIsLocal: any bit from the local bit up counts.
scopeIsLocalAtLeast(scope) == scope >= ON_LOCAL

scopeIsLocal(scope) == And(scope, ON_LOCAL) = ON_LOCAL

\* Faulty variant of scopeExcludesMirrors: the coordinator bit is tested.
scopeExcludesMirrorsByCoordinatorBit(scope) ==
    And(scope, INCLUDE_COORDINATOR) = EXCLUDE_MIRRORS

scopeExcludesMirrors(scope) == And(scope, INCLUDE_MIRRORS) = EXCLUDE_MIRRORS

scopeIncludesMirrors(scope) == And(scope, INCLUDE_MIRRORS) = INCLUDE_MIRRORS

\* ------------------------------------------------------------------------
\* ShellCommand
\* ------------------------------------------------------------------------
NoError == 0
NoText == 0
NoRetryError == [errs |-> << >>]

\* The Host of a per-segment command, and the host of no segment: ""
NoHost == 0

NewShellCommand(scope, content, host, cmd) ==
    [Scope |-> scope, Content |-> content, Host |-> host,
     CommandString |-> cmd,
     Stdout |-> NoText, Stderr |-> NoText,
     Error |-> NoError, RetryError |-> NoRetryError,
     Completed |-> FALSE]

\* The command lists handed to the executor: n fresh per-segment commands
\* for the contents -1, 0, 1, ... (as GenerateCommandList builds them).
FreshCommandList(n) ==
    [k \in 1 .. n |-> NewShellCommand(ON_SEGMENTS, k - 2, NoHost, <<"cmd", k - 2>>)]

\* ------------------------------------------------------------------------
\* State of the executor
\* ------------------------------------------------------------------------
VARIABLES
    commandList,   \* the caller's slice, shared with the units
    entry,         \* which entry point was called
    maxAttempts,   \* argument
    mpc,           \* caller: "launch", "recv", "check", "report", "done"
    launched,      \* caller: number of goroutines started (first loop)
    recvd,         \* caller: i of the receive loop
    index,         \* caller: the index last received from the channel
    numErrors,     \* caller: local counter
    output,        \* the returned *RemoteOutput (NoOutput before return)
    pc,            \* unit: "idle", "start", "run", "sleep", "send", "exit"
    attempt,       \* unit: loop variable
    command,       \* unit: local copy of its ShellCommand
    out,           \* unit: local out
    err,           \* unit: local err
    stderr,        \* unit: local stderr buffer
    begun,         \* observation: number of attempts (processes) started
    hist,          \* observation: [n, ok] of each attempt that returned, in order
    sleeps,        \* observation: number of time.Sleep calls of the unit
    writers,       \* observation: per slot, the units that stored into it
    reads,         \* observation: every read of a slot
    signals        \* observation: per unit, sends completed on `finished`

\* ------------------------------------------------------------------------
\* State of the topology
\* ------------------------------------------------------------------------
VARIABLES
    segConfigs,    \* the []SegConfig handed to NewCluster
    cluster,       \* the Cluster (NoCluster before NewCluster has run)
    cpc            \* "new" before NewCluster, "built" after

\* ------------------------------------------------------------------------
\* State of a call of GenerateCommandList, GenerateSSHCommandList or
\* Get...ForContent on the topology
\* ------------------------------------------------------------------------
VARIABLES
    genScope,       \* the scope argument
    generator,      \* the shape (Go type) of the generator argument
    genCommands,    \* the list returned, << >> before the call
    genCalls,       \* the arguments the generator was invoked with, in order
    got             \* what the Get...ForContent functions returned

\* ------------------------------------------------------------------------
\* State of a caller that composes a scope and asks the scope predicates
\* ------------------------------------------------------------------------
VARIABLES
    scopeArg,       \* the scope value
    answers,        \* what the eight predicates said of it, << >> before
    orred           \* the axis and the constant last or-ed into it

\* ------------------------------------------------------------------------
\* State of a call of CheckClusterError
\* ------------------------------------------------------------------------
VARIABLES
    reportScope,    \* the scope the commands were generated and run with
    finished,       \* the commands the executor has completed
    remoteOutput,   \* the report passed to CheckClusterError
    messageFunc,    \* the shape of the messageFunc argument
    noFatal,        \* the variadic noFatal argument
    logged,         \* the gplog calls made, in order
    rpc

\* ------------------------------------------------------------------------
\* State of a call of GetSegmentConfigurationFromFile
\* ------------------------------------------------------------------------
VARIABLES
    fileStatus,     \* what the call will find: its argument and the file
    fileLines,      \* the lines of gpsegconfig_dump
    fileResult,     \* what the call returned
    fpc

\* ------------------------------------------------------------------------
\* State of a database version and of the calls made on it
\* ------------------------------------------------------------------------
VARIABLES
    dbversion,      \* the GPDBVersion value
    versionText,    \* the text handed to ParseVersionInfo, piece by piece
    verdict,        \* what Before, AtLeast and Is said of a target, << >> before
    vpc

\* ------------------------------------------------------------------------
\* State of a call of GetSegmentConfiguration
\* ------------------------------------------------------------------------
VARIABLES
    rows,           \* the rows of gp_segment_configuration
    getMirrors,     \* the variadic getMirrors argument
    query,          \* the query sent over the connection
    selected        \* what the call returned

execVars == <<commandList, entry, maxAttempts, mpc, launched, recvd, index,
              numErrors, output, pc, attempt, command, out, err, stderr,
              begun, hist, sleeps, writers, reads, signals>>

clusterVars == <<segConfigs, cluster, cpc>>

genVars == <<genScope, generator, genCommands, genCalls, got>>

scopeVars == <<scopeArg, answers, orred>>

reportVars == <<reportScope, finished, remoteOutput, messageFunc, noFatal,
                logged, rpc>>

fileVars == <<fileStatus, fileLines, fileResult, fpc>>

versionVars == <<dbversion, versionText, verdict, vpc>>

queryVars == <<rows, getMirrors, query, selected>>

dbVars == <<versionVars, queryVars>>

\* What the calls on a topology do not touch
otherVars == <<scopeVars, reportVars, fileVars, dbVars>>

\* What the executor does not touch
restVars == <<clusterVars, genVars, otherVars>>

vars == <<execVars, restVars>>

mainVars == <<mpc, launched, recvd, index, numErrors, output>>
unitLocals == <<attempt, command, out, err, stderr>>
obsVars == <<begun, hist, sleeps, writers, reads, signals>>

Units == DOMAIN commandList
length == Len(commandList)

NoOutput == [Scope |-> ON_SEGMENTS, NumErrors |-> 0 - 1, Commands |-> << >>,
             FailedCommands |-> << >>, RetriedCommands |-> << >>]

\* ------------------------------------------------------------------------
\* SegConfig and NewCluster
\* ------------------------------------------------------------------------
\* Bounds of the inputs of NewCluster
MaxSegs == 3
MaxContent == 0
MaxHosts == 3

\* A content id holds a primary and at most one mirror: ByContent maps it
\* to a pair at most.
SegmentsPerContent == 2

Roles == {"p", "m"}
Contents == (0 - 1) .. MaxContent

\* The record at position k of the list: DbID, Port and DataDir are set from
\* the position, so that every record is distinguishable.
SegConfig(k, content, role, host) ==
    [DbID |-> k, ContentID |-> content, Role |-> role, Port |-> 5000 + k,
     Hostname |-> host, DataDir |-> <<"dir", k>>]

\* Hostnames are compared for equality only, so hosts are numbered in the
\* order in which a list first names them: the next record is on a host
\* already named or on the next new one.
HostChoices(segs) ==
    LET named == {segs[k].Hostname : k \in DOMAIN segs}
    IN  {h \in 1 .. MaxHosts : h <= Cardinality(named) + 1}

\* A content id with fewer than SegmentsPerContent records takes one more.
ContentChoices(segs) ==
    {c \in Contents :
        Cardinality({k \in DOMAIN segs : segs[k].ContentID = c}) < SegmentsPerContent}

NoCluster == [ContentIDs |-> << >>, Hostnames |-> << >>, Segments |-> << >>,
              ByContent |-> << >>, ByHost |-> << >>]

\* m[key], or the nil slice when key is not in the map
Lookup(m, key) == IF key \in DOMAIN m THEN m[key] ELSE << >>

\* m[key] = val
Assign(m, key, val) ==
    [k \in DOMAIN m \cup {key} |-> IF k = key THEN val ELSE m[k]]

\* Variant of SwapNeeded in which a mirror-first pair is left as it is.
SwapNever(segs, segmentList) == FALSE

\* len(segmentList) == 2 && segmentList[0].Role == "m"
SwapNeeded(segs, segmentList) ==
    Len(segmentList) = 2 /\ segs[segmentList[1]].Role = "m"

\* One iteration of NewCluster's loop, for the record at position i.  The
\* maps hold pointers into Segments: here, positions of Segments.
AddSegment(c, i) ==
    LET segment == c.Segments[i]
        appended == Append(Lookup(c.ByContent, segment.ContentID), i)
        segmentList == IF SwapNeeded(c.Segments, appended)
                       THEN <<appended[2], appended[1]>>
                       ELSE appended
        hostList == Append(Lookup(c.ByHost, segment.Hostname), i)
    IN  [c EXCEPT
            !.ByContent = Assign(@, segment.ContentID, segmentList),
            !.ByHost = Assign(@, segment.Hostname, hostList),
            !.Hostnames = IF Len(hostList) = 1
                          THEN Append(@, segment.Hostname) ELSE @]

RECURSIVE AddSegments(_, _)
\* The loop of NewCluster from position i on.
AddSegments(c, i) ==
    IF i > Len(c.Segments) THEN c ELSE AddSegments(AddSegment(c, i), i + 1)

RECURSIVE SortInts(_)
\* sort.Ints over the keys of a map: the ascending sequence of the set S.
SortInts(S) ==
    IF S = {} THEN << >>
    ELSE LET least == CHOOSE x \in S : \A y \in S : x <= y
         IN  <<least>> \o SortInts(S \ {least})

\* Faulty variant of NewCluster: the keys of ByContent are listed from the
\* highest down (a map is ranged over in no particular order).
NewClusterUnsorted(segs) ==
    LET looped == AddSegments([NoCluster EXCEPT !.Segments = segs], 1)
        ascending == SortInts(DOMAIN looped.ByContent)
    IN  [looped EXCEPT !.ContentIDs =
            [k \in DOMAIN ascending |-> ascending[Len(ascending) + 1 - k]]]

NewCluster(segs) ==
    LET looped == AddSegments([NoCluster EXCEPT !.Segments = segs], 1)
    IN  [looped EXCEPT !.ContentIDs = SortInts(DOMAIN looped.ByContent)]

\* The caller's list of records grows by one record:
\* results = append(results, seg)
AddSegConfig(content, role, host) ==
    /\ cpc = "new"
    /\ Len(segConfigs) < MaxSegs
    /\ content \in ContentChoices(segConfigs)
    /\ host \in HostChoices(segConfigs)
    /\ segConfigs' = Append(segConfigs,
                            SegConfig(Len(segConfigs) + 1, content, role, host))
    /\ UNCHANGED <<cluster, cpc, execVars, genVars, otherVars>>

\* cluster := NewCluster(segConfigs)
NewClusterCall ==
    /\ cpc = "new"
    /\ cluster' = NewCluster(segConfigs)
    /\ cpc' = "built"
    /\ UNCHANGED <<segConfigs, execVars, genVars, otherVars>>

\* No topology is involved.
ClusterIdle ==
    /\ segConfigs = << >>
    /\ cluster = NoCluster
    /\ cpc = "idle"

\* ------------------------------------------------------------------------
\* The Get...ForContent and Get...ForHost lookups
\* ------------------------------------------------------------------------
\* A nil *SegConfig (the maps hold positions of Segments, which start at 1)
NilSegment == 0

\* The DataDir of no segment: ""
NoDir == << >>

\* The variadic role argument: none, "p" or "m"
RoleArgs == {<< >>, <<"p">>, <<"m">>}

getSegmentByRole(segmentList, role) ==
    IF Len(role) = 1 /\ role[1] = "m"
    THEN IF Len(segmentList) < 2 THEN NilSegment ELSE segmentList[2]
    ELSE IF Len(segmentList) = 0 THEN NilSegment ELSE segmentList[1]

GetDbidForContent(c, contentID, role) ==
    LET segConfig == getSegmentByRole(Lookup(c.ByContent, contentID), role)
    IN  IF segConfig = NilSegment THEN 0 - 1 ELSE c.Segments[segConfig].DbID

GetPortForContent(c, contentID, role) ==
    LET segConfig == getSegmentByRole(Lookup(c.ByContent, contentID), role)
    IN  IF segConfig = NilSegment THEN 0 - 1 ELSE c.Segments[segConfig].Port

GetHostForContent(c, contentID, role) ==
    LET segConfig == getSegmentByRole(Lookup(c.ByContent, contentID), role)
    IN  IF segConfig = NilSegment THEN NoHost ELSE c.Segments[segConfig].Hostname

GetDirForContent(c, contentID, role) ==
    LET segConfig == getSegmentByRole(Lookup(c.ByContent, contentID), role)
    IN  IF segConfig = NilSegment THEN NoDir ELSE c.Segments[segConfig].DataDir

GetContentsForHost(c, hostname) ==
    LET segs == Lookup(c.ByHost, hostname)
    IN  [i \in DOMAIN segs |-> c.Segments[segs[i]].ContentID]

\* One call of each of the four lookups, with the same arguments
GetDbidsForHost(c, hostname) ==
    [i \in DOMAIN Lookup(c.ByHost, hostname) |->
        c.Segments[Lookup(c.ByHost, hostname)[i]].DbID]

GetPortsForHost(c, hostname) ==
    [i \in DOMAIN Lookup(c.ByHost, hostname) |->
        c.Segments[Lookup(c.ByHost, hostname)[i]].Port]

GetDirsForHost(c, hostname) ==
    [i \in DOMAIN Lookup(c.ByHost, hostname) |->
        c.Segments[Lookup(c.ByHost, hostname)[i]].DataDir]

\* The four lookups by host, of one host
GetForHostCall(hostname) ==
    /\ cpc = "built"
    /\ got' = [hostname |-> hostname,
               Dbids |-> GetDbidsForHost(cluster, hostname),
               Contents |-> GetContentsForHost(cluster, hostname),
               Ports |-> GetPortsForHost(cluster, hostname),
               Dirs |-> GetDirsForHost(cluster, hostname)]
    /\ cpc' = "gothost"
    /\ UNCHANGED <<segConfigs, cluster, genScope, generator, genCommands,
                   genCalls, execVars, otherVars>>

GetForContentCall(contentID, role) ==
    /\ cpc = "built"
    /\ got' = [contentID |-> contentID, role |-> role,
               Dbid |-> GetDbidForContent(cluster, contentID, role),
               Port |-> GetPortForContent(cluster, contentID, role),
               Host |-> GetHostForContent(cluster, contentID, role),
               Dir |-> GetDirForContent(cluster, contentID, role)]
    /\ cpc' = "got"
    /\ UNCHANGED <<segConfigs, cluster, genScope, generator, genCommands,
                   genCalls, execVars, otherVars>>

\* ------------------------------------------------------------------------
\* GenerateCommandList and GenerateSSHCommandList
\* ------------------------------------------------------------------------
\* The shapes of a generator argument: the Go function types the two type
\* switches tell apart, and one that neither knows.
ContentArgv == "func(content int) []string"
HostArgv == "func(host string) []string"
ContentString == "func(content int) string"
HostString == "func(host string) string"
OtherShape == "func() string"
Generators == {ContentArgv, HostArgv, ContentString, HostString, OtherShape}

\* The scopes passed: every combination of the four axes
Scopes == 0 .. (ON_HOSTS + INCLUDE_COORDINATOR + ON_LOCAL + INCLUDE_MIRRORS)

\* What the caller's generator returns for its argument: an argv, or a
\* command string.
GenerateArgv(arg) == <<"argv", arg>>
GenerateString(arg) == <<"cmd", arg>>

\* The Content of a per-host command
NoContent == 0 - 2

\* gplog.Fatal: the message is logged and the process ends; the control
\* state of a terminated process.
Fatal == "terminated"

\* if content == -1 && scopeExcludesCoordinator(scope) { continue }
SkipContent(s, content) == content = 0 - 1 /\ scopeExcludesCoordinator(s)

\* Faulty variant of hostHasOneContent: the host's records are not counted.
hostHasOneContentAlways(c, host) == TRUE

\* hostHasOneContent := len(cluster.GetContentsForHost(host)) == 1
hostHasOneContent(c, host) == Len(GetContentsForHost(c, host)) = 1

\* The two tests of the per-host loop that end in continue
SkipHost(c, s, host) ==
    \/ /\ host = GetHostForContent(c, 0 - 1, <<"p">>)
       /\ scopeExcludesCoordinator(s)
       /\ hostHasOneContent(c, host)
    \/ /\ host = GetHostForContent(c, 0 - 1, <<"m">>)
       /\ scopeExcludesMirrors(s)
       /\ hostHasOneContent(c, host)

\* case func(content int) []string
IsContentGenerator(shape) == shape = ContentArgv

\* Faulty variant of IsHostGenerator: every shape that is not the
\* per-content one is taken for the per-host one.
IsHostGeneratorLoose(shape) == shape /= ContentArgv

\* case func(host string) []string
IsHostGenerator(shape) == shape = HostArgv

\* What a generator can be invoked with: a content id or a host
Targets == Contents \cup (1 .. MaxHosts)

\* The generator is invoked once per retained target, in order, and its
\* argv goes into the command of that target.  fatal: the default case.
\* (generateCommand: the Go function, as a function over Targets.)
GenerateCommandList(c, s, shape, generateCommand) ==
    IF IsContentGenerator(shape)
    THEN LET kept == SelectSeq(c.ContentIDs, LAMBDA content : ~SkipContent(s, content))
         IN  [commands |-> [k \in DOMAIN kept |->
                  NewShellCommand(s, kept[k], NoHost, generateCommand[kept[k]])],
              calls |-> kept, fatal |-> FALSE]
    ELSE IF IsHostGenerator(shape)
    THEN LET kept == SelectSeq(c.Hostnames, LAMBDA host : ~SkipHost(c, s, host))
         IN  [commands |-> [k \in DOMAIN kept |->
                  NewShellCommand(s, NoContent, kept[k], generateCommand[kept[k]])],
              calls |-> kept, fatal |-> FALSE]
    ELSE [commands |-> << >>, calls |-> << >>, fatal |-> TRUE]

\* operating.System.CurrentUser().Username
CurrentUser == "gpadmin"

ConstructSSHCommand(useLocal, host, cmd) ==
    IF useLocal THEN <<"bash", "-c", cmd>>
    ELSE <<"ssh", "-o", "StrictHostKeyChecking=no", <<CurrentUser, "@", host>>, cmd>>

\* useLocal := (host == localHost || scopeIsLocal(scope))
UseLocal(s, host, localHost) == host = localHost \/ scopeIsLocal(s)

\* Faulty variant of IsHostStringGenerator: every shape that is not the
\* per-content one is taken for the per-host one.
IsHostStringGeneratorLoose(shape) == shape /= ContentString

\* case func(host string) string
IsHostStringGenerator(shape) == shape = HostString

\* A generator of neither string shape leaves commands nil, without a fatal.
GenerateSSHCommandList(c, s, shape) ==
    LET localHost == GetHostForContent(c, 0 - 1, << >>)
    IN  IF shape = ContentString
        THEN GenerateCommandList(c, s, ContentArgv,
                 [content \in Targets |->
                     ConstructSSHCommand(
                         UseLocal(s, GetHostForContent(c, content, << >>), localHost),
                         GetHostForContent(c, content, << >>),
                         GenerateString(content))])
        ELSE IF IsHostStringGenerator(shape)
        THEN GenerateCommandList(c, s, HostArgv,
                 [host \in Targets |->
                     ConstructSSHCommand(UseLocal(s, host, localHost), host,
                                         GenerateString(host))])
        ELSE [commands |-> << >>, calls |-> << >>, fatal |-> FALSE]

\* The call has returned r, or has ended the process.
Generated(s, shape, r, returned) ==
    /\ cpc = "built"
    /\ genScope' = s
    /\ generator' = shape
    /\ genCommands' = r.commands
    /\ genCalls' = r.calls
    /\ cpc' = IF r.fatal THEN Fatal ELSE returned
    /\ UNCHANGED <<segConfigs, cluster, got, execVars, otherVars>>

\* commands := cluster.GenerateCommandList(scope, generator)
GenerateCommandListCall(s, shape) ==
    Generated(s, shape,
              GenerateCommandList(cluster, s, shape,
                                  [arg \in Targets |-> GenerateArgv(arg)]),
              "generated")

\* commands := cluster.GenerateSSHCommandList(scope, generator)
GenerateSSHCommandListCall(s, shape) ==
    Generated(s, shape, GenerateSSHCommandList(cluster, s, shape), "sshgenerated")

\* The caller is done with what the last call returned and goes on to its
\* next call on the topology.
NextCall ==
    /\ cpc \in {"got", "gothost", "generated", "sshgenerated"}
    /\ cpc' = "built"
    /\ genScope' = ON_SEGMENTS
    /\ generator' = OtherShape
    /\ genCommands' = << >>
    /\ genCalls' = << >>
    /\ got' = << >>
    /\ UNCHANGED <<segConfigs, cluster, execVars, otherVars>>

\* The scopes of the calls that follow one another: per node and per host,
\* with the fewest and with the most targets
LaterScopes ==
    {ON_SEGMENTS, ON_HOSTS,
     ON_SEGMENTS + INCLUDE_COORDINATOR + INCLUDE_MIRRORS,
     ON_HOSTS + INCLUDE_COORDINATOR + INCLUDE_MIRRORS + ON_LOCAL}

\* No call on a topology was made.
GenIdle ==
    /\ genScope = ON_SEGMENTS
    /\ generator = OtherShape
    /\ genCommands = << >>
    /\ genCalls = << >>
    /\ got = << >>

\* ------------------------------------------------------------------------
\* A caller composes a scope with | and asks the predicates
\* ------------------------------------------------------------------------
RECURSIVE BitOr(_, _, _)
\* a | b over the w low bits
BitOr(a, b, w) ==
    IF w = 0 THEN 0
    ELSE (IF a % 2 = 1 \/ b % 2 = 1 THEN 1 ELSE 0)
            + 2 * BitOr(a \div 2, b \div 2, w - 1)

\* scope | constant, on Scope values
Or(scope, constant) == BitOr(scope, constant, ScopeWidth)

\* The constants of each axis
AxisConstants ==
    {<<"hosts", ON_SEGMENTS>>, <<"hosts", ON_HOSTS>>,
     <<"coordinator", EXCLUDE_COORDINATOR>>, <<"coordinator", INCLUDE_COORDINATOR>>,
     <<"local", ON_REMOTE>>, <<"local", ON_LOCAL>>,
     <<"mirrors", EXCLUDE_MIRRORS>>, <<"mirrors", INCLUDE_MIRRORS>>}

\* The eight predicates, asked of one scope
Answers(scope) ==
    [scopeIsSegments |-> scopeIsSegments(scope),
     scopeIsHosts |-> scopeIsHosts(scope),
     scopeExcludesCoordinator |-> scopeExcludesCoordinator(scope),
     scopeIncludesCoordinator |-> scopeIncludesCoordinator(scope),
     scopeIsRemote |-> scopeIsRemote(scope),
     scopeIsLocal |-> scopeIsLocal(scope),
     scopeExcludesMirrors |-> scopeExcludesMirrors(scope),
     scopeIncludesMirrors |-> scopeIncludesMirrors(scope)]

\* The predicates are asked of the scope.
AskScope ==
    /\ answers = << >>
    /\ answers' = Answers(scopeArg)
    /\ UNCHANGED <<scopeArg, orred, execVars, clusterVars, genVars, reportVars,
                   fileVars, dbVars>>

\* scope = scope | constant, and the predicates are asked again.
OrScope(axis, constant) ==
    /\ answers /= << >>
    /\ scopeArg' = Or(scopeArg, constant)
    /\ orred' = <<axis, constant>>
    /\ answers' = Answers(scopeArg')
    /\ UNCHANGED <<execVars, clusterVars, genVars, reportVars, fileVars,
                   dbVars>>

\* No scope is being composed.
ScopeIdle ==
    /\ scopeArg = ON_SEGMENTS
    /\ answers = << >>
    /\ orred = << >>

\* ------------------------------------------------------------------------
\* NewRemoteOutput
\* ------------------------------------------------------------------------
RECURSIVE SelectSeq2(_, _, _)
\* The commands of cs, in order, for which keep[k] holds.
SelectSeq2(cs, keep, k) ==
    IF k > Len(cs) THEN << >>
    ELSE (IF keep[k] THEN <<cs[k]>> ELSE << >>) \o SelectSeq2(cs, keep, k + 1)

\* Faulty variant of IsFailed: a command counts as failed as soon as one of
\* its attempts failed.
IsFailedByRetry(c) == c.RetryError /= NoRetryError

IsFailed(c) == c.Error /= NoError

\* Faulty variant of IsRetried: the test is not under the else of the
\* Error test.
IsRetriedNoElse(c) == c.RetryError /= NoRetryError

IsRetried(c) == c.Error = NoError /\ c.RetryError /= NoRetryError

NewRemoteOutput(scope, n, commands) ==
    [Scope |-> scope,
     NumErrors |-> n,
     Commands |-> commands,
     FailedCommands |->
        SelectSeq2(commands, [k \in DOMAIN commands |-> IsFailed(commands[k])], 1),
     RetriedCommands |->
        SelectSeq2(commands, [k \in DOMAIN commands |-> IsRetried(commands[k])], 1)]

\* ------------------------------------------------------------------------
\* ExecuteClusterCommandWithRetries: the units
\* ------------------------------------------------------------------------
\* Faulty variant of LoopGuard: a unit gives up once another unit has failed.
LoopGuardShortCircuit(i, a) ==
    a <= maxAttempts /\ \A j \in Units \ {i} : err[j] = NoError

\* Faulty variant of LoopGuard: the first attempt is made unconditionally.
LoopGuardAtLeastOnce(i, a) == a = 1 \/ a <= maxAttempts

\* for attempt := 1; attempt <= maxAttempts; attempt++   (unit i's guard, at a)
LoopGuard(i, a) == a <= maxAttempts

\* Faulty variant of Breaks: the loop is not left on success.
BreaksNever(ok) == FALSE

\* if err == nil { break }
Breaks(ok) == ok

\* Faulty variant of SleepsAfter: the unit sleeps after every failure.
SleepsAlways(a) == TRUE

\* if attempt != maxAttempts { time.Sleep(retrySleep) }
SleepsAfter(a) == a /= maxAttempts

\* fmt.Errorf("attempt %d: error was %w: %s", attempt, err, stderr.String())
NewRetryErr(a, e, s) == [attempt |-> a, err |-> e, stderr |-> s]

\* Faulty variant of Join: the new error replaces the accumulated ones.
JoinOverwrite(retryError, newErr) == [errs |-> <<newErr>>]

\* joinerrs.Join(command.RetryError, newRetryErr): a new join error over the
\* operands that are not nil; an operand that is a join error stays nested.
Join(retryError, newErr) ==
    [errs |-> (IF retryError = NoRetryError THEN << >> ELSE <<retryError>>)
              \o <<newErr>>]

RECURSIVE Joined(_)
\* The wrapped attempt errors a (nested) join error is made of, in the order
\* in which its Error() text lists them, one per line.
Joined(e) ==
    IF "errs" \in DOMAIN e
    THEN IF e.errs = << >> THEN << >>
         ELSE Joined(e.errs[1]) \o
              Joined([errs |-> SubSeq(e.errs, 2, Len(e.errs))])
    ELSE <<e>>

\* Faulty variant of StoreSlot: every unit stores into the first slot.
StoreSlotFirst(i) == 1

\* commandList[index] = command: the slot a unit stores into
StoreSlot(i) == i

\* Faulty variant of Completed: command.Error is not set.
CompletedNoError(cmd, o, se, e) ==
    [cmd EXCEPT !.Stdout = o, !.Stderr = se, !.Completed = TRUE]

\* After the loop: command.Stdout = string(out); command.Stderr =
\* stderr.String(); command.Error = err; command.Completed = true
Completed(cmd, o, se, e) ==
    [cmd EXCEPT !.Stdout = o, !.Stderr = se, !.Error = e, !.Completed = TRUE]

\* commandList[index] = command, after which the unit is at its send.
Store(i, cmd) ==
    /\ command' = [command EXCEPT ![i] = cmd]
    /\ commandList' = [commandList EXCEPT ![StoreSlot(i)] = cmd]
    /\ writers' = [writers EXCEPT ![StoreSlot(i)] = Append(@, i)]
    /\ pc' = [pc EXCEPT ![i] = "send"]

\* The loop guard is evaluated with attempt = a and the locals cmd, o, se, e.
\* When it holds the body starts: stderr.Reset(), resetCmd, and cmd.Output()
\* launches the process ("run").  Otherwise the loop is left, the result
\* fields are set and the command is stored into the slice ("send").
EnterLoop(i, a, cmd, o, se, e) ==
    /\ attempt' = [attempt EXCEPT ![i] = a]
    /\ out' = [out EXCEPT ![i] = o]
    /\ err' = [err EXCEPT ![i] = e]
    /\ IF LoopGuard(i, a)
       THEN /\ stderr' = [stderr EXCEPT ![i] = NoText]
            /\ begun' = [begun EXCEPT ![i] = @ + 1]
            /\ command' = [command EXCEPT ![i] = cmd]
            /\ pc' = [pc EXCEPT ![i] = "run"]
            /\ UNCHANGED <<commandList, writers>>
       ELSE /\ stderr' = [stderr EXCEPT ![i] = se]
            /\ Store(i, Completed(cmd, o, se, e))
            /\ UNCHANGED begun

\* command := commandList[index]; attempt := 1; first evaluation of the guard
UnitStart(i) ==
    /\ pc[i] = "start"
    /\ reads' = reads \cup {[by |-> i, slot |-> i, signalled |-> signals[i] > 0]}
    /\ EnterLoop(i, 1, commandList[i], out[i], stderr[i], err[i])
    /\ UNCHANGED <<entry, maxAttempts, mainVars, hist, sleeps, signals>>

\* cmd.Output() returns, with success (ok) or with an error, and the rest of
\* the loop body runs: break (then the store), or the retry error is joined
\* and the unit sleeps, or (no sleep) attempt++ and the guard again.
UnitEnd(i, ok) ==
    LET a == attempt[i]
        e == IF ok THEN NoError ELSE a
        joined == [command[i] EXCEPT !.RetryError = Join(@, NewRetryErr(a, e, a))]
    IN  /\ pc[i] = "run"
        /\ hist' = [hist EXCEPT ![i] = Append(@, [n |-> a, ok |-> ok])]
        /\ IF Breaks(ok)
           THEN /\ out' = [out EXCEPT ![i] = a]
                /\ err' = [err EXCEPT ![i] = e]
                /\ stderr' = [stderr EXCEPT ![i] = a]
                /\ Store(i, Completed(command[i], a, a, e))
                /\ UNCHANGED <<attempt, sleeps, begun>>
           ELSE IF SleepsAfter(a)
           THEN /\ out' = [out EXCEPT ![i] = a]
                /\ err' = [err EXCEPT ![i] = e]
                /\ stderr' = [stderr EXCEPT ![i] = a]
                /\ command' = [command EXCEPT ![i] = joined]
                /\ sleeps' = [sleeps EXCEPT ![i] = @ + 1]
                /\ pc' = [pc EXCEPT ![i] = "sleep"]
                /\ UNCHANGED <<attempt, commandList, writers, begun>>
           ELSE /\ EnterLoop(i, a + 1, joined, a, a, e)
                /\ UNCHANGED sleeps
        /\ UNCHANGED <<entry, maxAttempts, mainVars, reads, signals>>

\* time.Sleep returns; attempt++; the guard
UnitWake(i) ==
    /\ pc[i] = "sleep"
    /\ EnterLoop(i, attempt[i] + 1, command[i], out[i], stderr[i], err[i])
    /\ UNCHANGED <<entry, maxAttempts, mainVars, hist, sleeps, reads, signals>>

\* ------------------------------------------------------------------------
\* ExecuteClusterCommandWithRetries: the caller
\* ------------------------------------------------------------------------
\* Faulty variant of RecvBound: the receive loop stops one signal short.
RecvBoundShort == length - 1

\* Faulty variant of RecvBound: the receive loop expects one signal too many.
RecvBoundLong == length + 1

\* for i := 0; i < length; i++
RecvBound == length

\* Faulty variant of CheckSlot: the caller reads the slot of its loop
\* counter, not the one of the index it received.
CheckSlotCounter == recvd + 1

\* commandList[index].Error: the slot the caller reads after a receive
CheckSlot == index

\* for i := range commandList { go func(index int) {...}(i) }
MainLaunch ==
    /\ mpc = "launch"
    /\ launched < length
    /\ launched' = launched + 1
    /\ pc' = [pc EXCEPT ![launched + 1] = "start"]
    /\ UNCHANGED <<commandList, entry, maxAttempts, mpc, recvd, index, numErrors,
                   output, unitLocals, obsVars>>

\* The range loop is exhausted; the receive loop's guard is evaluated.
MainLaunchEnd ==
    /\ mpc = "launch"
    /\ launched = length
    /\ mpc' = IF recvd < RecvBound THEN "recv" ELSE "report"
    /\ UNCHANGED <<commandList, entry, maxAttempts, launched, recvd, index,
                   numErrors, output, pc, unitLocals, obsVars>>

\* index := <-finished, together with unit i's  finished <- index
\* (the channel is unbuffered: send and receive are one rendezvous).
MainRecv(i) ==
    /\ mpc = "recv"
    /\ pc[i] = "send"
    /\ index' = i
    /\ signals' = [signals EXCEPT ![i] = @ + 1]
    /\ pc' = [pc EXCEPT ![i] = "exit"]
    /\ mpc' = "check"
    /\ UNCHANGED <<commandList, entry, maxAttempts, launched, recvd, numErrors,
                   output, unitLocals, begun, hist, sleeps, writers, reads>>

\* if commandList[index].Error != nil { numErrors++ }; i++
MainCheck ==
    /\ mpc = "check"
    /\ reads' = reads \cup
          {[by |-> 0, slot |-> CheckSlot, signalled |-> signals[CheckSlot] > 0]}
    /\ numErrors' = IF commandList[CheckSlot].Error /= NoError
                    THEN numErrors + 1 ELSE numErrors
    /\ recvd' = recvd + 1
    /\ mpc' = IF recvd + 1 < RecvBound THEN "recv" ELSE "report"
    /\ UNCHANGED <<commandList, entry, maxAttempts, launched, index, output, pc,
                   unitLocals, begun, hist, sleeps, writers, signals>>

\* return NewRemoteOutput(scope, numErrors, commandList)
MainReturn ==
    /\ mpc = "report"
    /\ output' = NewRemoteOutput(ON_SEGMENTS, numErrors, commandList)
    /\ reads' = reads \cup
          {[by |-> 0, slot |-> k, signalled |-> signals[k] > 0] : k \in Units}
    /\ mpc' = "done"
    /\ UNCHANGED <<commandList, entry, maxAttempts, launched, recvd, index,
                   numErrors, pc, unitLocals, begun, hist, sleeps, writers,
                   signals>>

\* ExecuteClusterCommand: ExecuteClusterCommandWithRetries(scope, commandList, 1, 0);
\* the maxAttempts it passes.
ExecuteClusterCommand == 1

\* ------------------------------------------------------------------------
\* CheckClusterError and LogFatalClusterError
\* ------------------------------------------------------------------------
\* The gplog calls: each logs its message at its level.  Custom logs at the
\* file level given (the shell level is left out).
LogEntry(level, msg) == [level |-> level, msg |-> msg]
Debug(msg) == LogEntry("DEBUG", msg)
Verbose(msg) == LogEntry("VERBOSE", msg)
Custom(fileLevel, msg) == LogEntry(fileLevel, msg)
Error(msg) == LogEntry("ERROR", msg)
FatalEntry(msg) == LogEntry("FATAL", msg)

\* The finalErrMsg argument, and what the caller's messageFunc returns
FinalErrMsg == "finalErrMsg"
getMessage(arg) == <<"msg", arg>>

RECURSIVE Flatten(_)
\* The lines of the passes of a loop, one after the other
Flatten(lines) ==
    IF lines = << >> THEN << >> ELSE Head(lines) \o Flatten(Tail(lines))

\* The body of the loop over RetriedCommands
RetriedLines(c, mf, retriedCommand) ==
    (IF mf = ContentString
     THEN <<Debug(<<"Command failed before passing on segment",
                    retriedCommand.Content,
                    GetHostForContent(c, retriedCommand.Content, << >>),
                    retriedCommand.RetryError>>)>>
     ELSE IF mf = HostString
     THEN <<Debug(<<"Command failed before passing on host",
                    retriedCommand.Host, retriedCommand.RetryError>>)>>
     ELSE << >>)
    \o <<Debug(<<"Command was", retriedCommand.CommandString>>)>>

\* The body of the loop over FailedCommands
FailedLines(c, mf, failedCommand) ==
    LET errStr == <<"with error", failedCommand.Error, failedCommand.Stderr>>
    IN  (IF mf = ContentString
         THEN <<Custom("ERROR", <<getMessage(failedCommand.Content), "on segment",
                                  failedCommand.Content,
                                  GetHostForContent(c, failedCommand.Content, << >>),
                                  errStr>>)>>
         ELSE IF mf = HostString
         THEN <<Custom("ERROR", <<getMessage(failedCommand.Host), "on host",
                                  failedCommand.Host, errStr>>)>>
         ELSE << >>)
        \o <<Verbose(<<"Command was", failedCommand.CommandString>>)>>

\* The message of the fatal
LogFatalClusterError(errMessage, scope, n) ==
    LET str == IF scopeIsLocal(scope) THEN <<" on", " coordinator for">> ELSE <<" on">>
        segMsg == IF scopeIsHosts(scope) THEN "host" ELSE "segment"
    IN  FatalEntry([errMessage |-> <<errMessage>> \o str,
                    numErrors |-> n,
                    segMsg |-> IF n /= 1 THEN <<segMsg, "s">> ELSE <<segMsg>>])

\* Faulty variant of IsNoFatal: a first argument that is true is enough.
IsNoFatalFirst(nf) == Len(nf) >= 1 /\ nf[1]

\* len(noFatal) == 1 && noFatal[0] == true
IsNoFatal(nf) == Len(nf) = 1 /\ nf[1]

\* if remoteOutput.NumErrors == 0 { return }
NoErrors(ro) == ro.NumErrors = 0

\* The gplog calls of CheckClusterError, in order, and how it ends: it
\* returns, or the fatal ends the process.
CheckClusterError(c, ro, finalErrMsg, mf, nf) ==
    LET retried == Flatten([k \in DOMAIN ro.RetriedCommands |->
                               RetriedLines(c, mf, ro.RetriedCommands[k])])
        failed == Flatten([k \in DOMAIN ro.FailedCommands |->
                               FailedLines(c, mf, ro.FailedCommands[k])])
    IN  IF NoErrors(ro)
        THEN [logged |-> retried, end |-> "returned"]
        ELSE IF IsNoFatal(nf)
        THEN [logged |-> retried \o failed \o <<Error(finalErrMsg)>>,
              end |-> "returned"]
        ELSE [logged |-> retried \o failed
                         \o <<LogFatalClusterError(finalErrMsg, ro.Scope, ro.NumErrors)>>,
              end |-> Fatal]

\* How a command can come out of the executor: its only attempt passed, it
\* passed after a failed attempt, or its attempts all failed.
Outcomes3 == {"passed", "retried", "failed"}

\* The k-th command of a list generated with scope s, completed with the
\* given outcome
CompletedCommand(s, k, outcome) ==
    LET fresh == IF scopeIsHosts(s)
                 THEN NewShellCommand(s, NoContent, k, GenerateString(k))
                 ELSE NewShellCommand(s, k - 2, NoHost, GenerateString(k - 2))
        tried == [fresh EXCEPT !.RetryError = Join(NoRetryError, NewRetryErr(1, 1, 1))]
    IN  CASE outcome = "passed" -> Completed(fresh, 1, NoText, NoError)
          [] outcome = "retried" -> Completed(tried, 2, NoText, NoError)
          [] outcome = "failed" -> Completed(tried, NoText, 2, 2)

\* numErrors as the executor counts it
NumErrors(cmds) == Cardinality({k \in DOMAIN cmds : cmds[k].Error /= NoError})

\* One more command has come out of the executor.
AddCompleted(outcome) ==
    /\ rpc = "collect"
    /\ Len(finished) < MaxCmds
    /\ finished' = Append(finished,
                          CompletedCommand(reportScope, Len(finished) + 1, outcome))
    /\ UNCHANGED <<reportScope, remoteOutput, messageFunc, noFatal, logged, rpc,
                   execVars, clusterVars, genVars, scopeVars, fileVars, dbVars>>

\* remoteOutput := NewRemoteOutput(scope, numErrors, commandList);
\* cluster.CheckClusterError(remoteOutput, finalErrMsg, messageFunc, noFatal...)
CheckClusterErrorCall(mf, nf) ==
    /\ rpc = "collect"
    /\ remoteOutput' = NewRemoteOutput(reportScope, NumErrors(finished), finished)
    /\ messageFunc' = mf
    /\ noFatal' = nf
    /\ LET r == CheckClusterError(cluster, remoteOutput', FinalErrMsg, mf, nf)
       IN  /\ logged' = r.logged
           /\ rpc' = r.end
    /\ UNCHANGED <<reportScope, finished, execVars, clusterVars, genVars,
                   scopeVars, fileVars, dbVars>>

\* The values of the variadic noFatal argument
NoFatalArgs == {<< >>, <<TRUE>>, <<FALSE>>, <<TRUE, TRUE>>}

\* No report is being checked.
ReportIdle ==
    /\ reportScope = ON_SEGMENTS
    /\ finished = << >>
    /\ remoteOutput = NoOutput
    /\ messageFunc = OtherShape
    /\ noFatal = << >>
    /\ logged = << >>
    /\ rpc = "idle"

\* ------------------------------------------------------------------------
\* GetSegmentConfigurationFromFile
\* ------------------------------------------------------------------------
\* A text is the sequence of its characters; "" is << >>.
\* Bounds of the file
MaxLines == 2
MaxFields == 11

\* A nil error, where an error is the sequence of the parts of its message
NilErr == << >>

\* unicode.IsSpace, on the characters used
Whitespace == {" ", "\t"}

\* The length of the run of characters that are not white space at the
\* head of text
FirstRun(text) ==
    IF \E i \in DOMAIN text : text[i] \in Whitespace
    THEN (CHOOSE i \in DOMAIN text :
             /\ text[i] \in Whitespace
             /\ \A j \in 1 .. (i - 1) : text[j] \notin Whitespace) - 1
    ELSE Len(text)

RECURSIVE Fields(_)
\* strings.Fields: the maximal runs of characters that are not white space
Fields(text) ==
    IF text = << >> THEN << >>
    ELSE IF Head(text) \in Whitespace THEN Fields(Tail(text))
    ELSE <<SubSeq(text, 1, FirstRun(text))>>
            \o Fields(SubSeq(text, FirstRun(text) + 1, Len(text)))

DigitChars == <<"0", "1", "2", "3", "4", "5", "6", "7", "8", "9">>

IsDigit(ch) == \E d \in DOMAIN DigitChars : DigitChars[d] = ch

DigitValue(ch) == (CHOOSE d \in DOMAIN DigitChars : DigitChars[d] = ch) - 1

RECURSIVE DigitsValue(_, _)
\* The number the digits stand for, after the digits that gave acc
DigitsValue(digits, acc) ==
    IF digits = << >> THEN acc
    ELSE DigitsValue(Tail(digits), 10 * acc + DigitValue(Head(digits)))

\* strconv.Atoi: an optional sign and at least one decimal digit, nothing
\* else; otherwise a syntax error.  (The texts here are short of the range
\* of int.)
Atoi(text) ==
    LET signed == text /= << >> /\ Head(text) \in {"+", "-"}
        digits == IF signed THEN Tail(text) ELSE text
    IN  IF digits = << >> \/ \E i \in DOMAIN digits : ~IsDigit(digits[i])
        THEN [n |-> 0, err |-> <<"strconv.Atoi: invalid syntax", text>>]
        ELSE [n |-> IF signed /\ Head(text) = "-"
                    THEN 0 - DigitsValue(digits, 0) ELSE DigitsValue(digits, 0),
              err |-> NilErr]

\* A nil []SegConfig
NilResults == << >>

\* Faulty variant of BadFieldCount: only a line that is too short is bad.
BadFieldCountBelow(parts) == parts < 9

\* if parts != 9 && parts != 10
BadFieldCount(parts) == parts /= 9 /\ parts /= 10

\* The body of the scanning loop for one line: the record, or the error
ParseLine(text) ==
    LET fields == Fields(text)
        parts == Len(fields)
    IN  IF BadFieldCount(parts)
        THEN [err |-> <<"Unexpected number of fields in line", parts, text>>]
        ELSE LET dbID == Atoi(fields[1])
                 content == Atoi(fields[2])
                 port == Atoi(fields[7])
             IN  IF dbID.err /= NilErr
                 THEN [err |-> <<"Failed to convert dbID to an int", fields[1], dbID.err>>]
                 ELSE IF content.err /= NilErr
                 THEN [err |-> <<"Failed to convert content to an int", fields[2],
                                 content.err>>]
                 ELSE IF port.err /= NilErr
                 THEN [err |-> <<"Failed to convert port to an int", fields[7], port.err>>]
                 ELSE [err |-> NilErr,
                       seg |-> [DbID |-> dbID.n, ContentID |-> content.n,
                                Role |-> fields[3], PreferredRole |-> fields[4],
                                Mode |-> fields[5], Status |-> fields[6],
                                Port |-> port.n, Hostname |-> fields[8],
                                Address |-> fields[9],
                                DataDir |-> IF parts = 10 THEN fields[10] ELSE NoDir]]

RECURSIVE ScanLines(_, _, _)
\* for scanner.Scan() { ... }, from line k on, with the results so far
ScanLines(lines, k, results) ==
    IF k > Len(lines) THEN [results |-> results, err |-> NilErr]
    ELSE LET parsed == ParseLine(lines[k].text)
         IN  IF parsed.err /= NilErr
             THEN [results |-> NilResults, err |-> parsed.err]
             ELSE ScanLines(lines, k + 1, Append(results, parsed.seg))

\* What the call can find: a blank coordinatorDataDir, no file to open, a
\* file that reads to its end, or a file whose reading fails.
FileStatuses == {"blank dir", "missing", "ok", "unreadable"}

GetSegmentConfigurationFromFile(status, lines) ==
    IF status = "blank dir"
    THEN [results |-> NilResults, err |-> <<"Coordinator data directory path is empty">>]
    ELSE IF status = "missing"
    THEN [results |-> NilResults, err |-> <<"Failed to open file">>]
    ELSE LET scanned == ScanLines(lines, 1, << >>)
         IN  IF scanned.err /= NilErr THEN scanned
             ELSE IF status = "unreadable"
             THEN [results |-> NilResults,
                   err |-> <<"Failed to read gpsegconfig_dump file">>]
             ELSE scanned

\* The text field i of line k is written with: the id, the port, the host
\* and the data directory tell the lines apart.
Written(k, i) ==
    CASE i = 1 -> <<DigitChars[k + 1]>>
      [] i = 2 -> <<"-", "1">>
      [] i = 3 -> <<"p">>
      [] i = 4 -> <<"p">>
      [] i = 5 -> <<"n">>
      [] i = 6 -> <<"u">>
      [] i = 7 -> <<"6", "0", DigitChars[k + 1]>>
      [] i = 8 -> <<"h", DigitChars[k + 1]>>
      [] i = 9 -> <<"a">>
      [] i = 10 -> <<"/", "d", DigitChars[k + 1]>>
      [] OTHER -> <<"e">>

\* A text that is not a number, for field i
Miswritten(i) ==
    CASE i = 1 -> <<"x">>
      [] i = 2 -> <<"1", "x">>
      [] OTHER -> <<"-">>

\* Line k with n fields, those in wrong miswritten
LineOf(k, n, wrong) ==
    [i \in 1 .. n |-> IF i \in wrong THEN Miswritten(i) ELSE Written(k, i)]

\* The lines line k can be: any number of fields, and with 9 or 10 fields
\* any of the id, the position and the port miswritten.
LineChoices(k) ==
    {LineOf(k, n, {}) : n \in 0 .. MaxFields}
        \cup {LineOf(k, n, wrong) : n \in {9, 10}, wrong \in SUBSET {1, 2, 7}}

\* The white space written before field i of a line of n fields, and at
\* the end of the line: single blanks, a tab and a blank, a leading and a
\* trailing blank.
Separator(i, n) ==
    IF i = 1 THEN (IF n % 2 = 0 THEN <<" ">> ELSE << >>)
    ELSE IF i > n THEN (IF n % 3 = 1 THEN <<" ">> ELSE << >>)
    ELSE IF i % 3 = 0 THEN <<"\t", " ">>
    ELSE <<" ">>

\* The line as written: its fields with white space between them
LineText(fields) ==
    Flatten([j \in 1 .. (2 * Len(fields) + 1) |->
                IF j % 2 = 1 THEN Separator((j + 1) \div 2, Len(fields))
                ELSE fields[j \div 2]])

\* One more line is in the file.
AddLine(fields) ==
    /\ fpc = "write"
    /\ fileStatus = "ok"
    /\ Len(fileLines) < MaxLines
    /\ fields \in LineChoices(Len(fileLines) + 1)
    /\ fileLines' = Append(fileLines, [fields |-> fields, text |-> LineText(fields)])
    /\ UNCHANGED <<fileStatus, fileResult, fpc, execVars, clusterVars, genVars,
                   scopeVars, reportVars, dbVars>>

\* segments, err := GetSegmentConfigurationFromFile(coordinatorDataDir)
GetSegmentConfigurationFromFileCall ==
    /\ fpc = "write"
    /\ fileResult' = GetSegmentConfigurationFromFile(fileStatus, fileLines)
    /\ fpc' = "parsed"
    /\ UNCHANGED <<fileStatus, fileLines, execVars, clusterVars, genVars,
                   scopeVars, reportVars, dbVars>>

\* No file is involved.
FileIdle ==
    /\ fileStatus = "missing"
    /\ fileLines = << >>
    /\ fileResult = << >>
    /\ fpc = "idle"

\* ------------------------------------------------------------------------
\* GPDBVersion: the version predicates (dbconn/version.go)
\* ------------------------------------------------------------------------
\* Bound of a component of a version
MaxComponent == 2

\* DBType
Unknown == 0
GPDB == 1
CBDB == 2

\* semver.Version{}: a version is <<Major, Minor, Patch>>
ZeroSemVer == <<0, 0, 0>>

\* GPDBVersion{}
ZeroVersion == [VersionString |-> << >>, SemVer |-> ZeroSemVer, Type |-> Unknown]

\* Version.Compare: -1, 0 or 1, by Major, then Minor, then Patch
Compare(v, o) ==
    LET differ == {i \in 1 .. 3 : v[i] /= o[i]}
    IN  IF differ = {} THEN 0
        ELSE LET first == CHOOSE i \in differ : \A j \in differ : i <= j
             IN  IF v[first] < o[first] THEN 0 - 1 ELSE 1

RECURSIVE Split(_, _)
\* strings.Split(text, sep): the runs between the separators, empty ones too
Split(text, sep) ==
    LET at == {i \in DOMAIN text : text[i] = sep}
    IN  IF at = {} THEN <<text>>
        ELSE LET first == CHOOSE i \in at : \A j \in at : i <= j
             IN  <<SubSeq(text, 1, first - 1)>>
                     \o Split(SubSeq(text, first + 1, Len(text)), sep)

\* A version number is written without a leading zero.
IsNumber(text) ==
    /\ text /= << >>
    /\ \A i \in DOMAIN text : IsDigit(text[i])
    /\ Len(text) > 1 => text[1] /= "0"

\* semver.Make(text): the version, and whether text is one.
Make(text) ==
    LET parts == Split(text, ".")
    IN  IF Len(parts) = 3 /\ \A i \in 1 .. 3 : IsNumber(parts[i])
        THEN [ver |-> [i \in 1 .. 3 |-> Atoi(parts[i]).n], ok |-> TRUE]
        ELSE [ver |-> ZeroSemVer, ok |-> FALSE]

NewVersion(versionStr) ==
    [VersionString |-> versionStr, SemVer |-> Make(versionStr).ver, Type |-> GPDB]

\* The wildcard of a range
Wildcard == <<"x">>

\* The operators of a range; a text handed to StringToSemVerRange starts
\* with one of them.
Operators == {"<", "<=", ">", ">=", "=="}

\* semver.MustParseRange(versionStr): the comparators a version must satisfy
\* all of.  A wildcard is expanded to the lowest version it stands for:
\* <1.2.x is <1.2.0, >=1.2.x is >=1.2.0, ==1.2.x is >=1.2.0 <1.3.0,
\* <=1.2.x is <1.3.0, >1.2.x is >=1.3.0, and 1.x stands for 1.x.x.
MustParseRange(versionStr) ==
    LET op == versionStr[1]
        parts == Split(Tail(versionStr), ".")
        wild == parts[Len(parts)] = Wildcard
        num == [i \in 1 .. 3 |->
                   IF i > Len(parts) \/ parts[i] = Wildcard THEN 0
                   ELSE Atoi(parts[i]).n]
        flat == <<num[1], num[2], num[3]>>
        next == IF Len(parts) = 2 THEN <<num[1] + 1, 0, 0>>
                ELSE <<num[1], num[2] + 1, 0>>
    IN  IF ~wild THEN {[op |-> op, version |-> flat]}
        ELSE CASE op = "<" -> {[op |-> "<", version |-> flat]}
               [] op = ">=" -> {[op |-> ">=", version |-> flat]}
               [] op = "<=" -> {[op |-> "<", version |-> next]}
               [] op = ">" -> {[op |-> ">=", version |-> next]}
               [] OTHER -> {[op |-> ">=", version |-> flat],
                            [op |-> "<", version |-> next]}

\* validRange(v): v satisfies every comparator of the range.
InRange(validRange, v) ==
    \A c \in validRange :
        LET cmp == Compare(v, c.version)
        IN  CASE c.op = "<" -> cmp < 0
              [] c.op = "<=" -> cmp <= 0
              [] c.op = ">" -> cmp > 0
              [] c.op = ">=" -> cmp >= 0
              [] OTHER -> cmp = 0

StringToSemVerRange(versionStr) ==
    LET numDigits == Len(Split(versionStr, "."))
    IN  MustParseRange(IF numDigits < 3 THEN versionStr \o <<".">> \o Wildcard
                       ELSE versionStr)

\* Variant of BeforeOperator that asks for "not after".
BeforeOperatorAtMost == "<="

BeforeOperator == "<"

Before(v, targetVersion) ==
    InRange(StringToSemVerRange(<<BeforeOperator>> \o targetVersion), v.SemVer)

AtLeast(v, targetVersion) ==
    InRange(StringToSemVerRange(<<">=">> \o targetVersion), v.SemVer)

Is(v, targetVersion) ==
    InRange(StringToSemVerRange(<<"==">> \o targetVersion), v.SemVer)

IsGPDB(v) == v.Type = GPDB

IsCBDB(v) == v.Type = CBDB

\* The literal texts of gpdbPattern and cbdbPattern after the parenthesis
GreenplumDatabase == "Greenplum Database "
ApacheCloudberry == "Apache Cloudberry "

gpdbPattern == GreenplumDatabase
cbdbPattern == ApacheCloudberry

RECURSIVE DigitRun(_, _)
\* [0-9]+ at position i: the number of digits from i on
DigitRun(text, i) ==
    IF i \in DOMAIN text /\ IsDigit(text[i]) THEN 1 + DigitRun(text, i + 1) ELSE 0

\* The pattern at position i: \( name [0-9]+ \. [0-9]+ \. [0-9]+ [^)]* \)
\* Where the submatch ends, or 0 when the pattern does not match at i.
MatchAt(text, i, pattern) ==
    LET x == DigitRun(text, i + 2)
        y == DigitRun(text, i + 3 + x)
        z == DigitRun(text, i + 4 + x + y)
        last == i + 3 + x + y + z
    IN  IF /\ i + 1 \in DOMAIN text
           /\ text[i] = "(" /\ text[i + 1] = pattern
           /\ x > 0 /\ y > 0 /\ z > 0
           /\ text[i + 2 + x] = "." /\ text[i + 3 + x + y] = "."
           /\ \E j \in DOMAIN text : j > last /\ text[j] = ")"
        THEN last ELSE 0

\* re.FindStringSubmatch(text): the submatch of the leftmost match, or the
\* empty list of matches.
FindStringSubmatch(text, pattern) ==
    LET at == {i \in DOMAIN text : MatchAt(text, i, pattern) > 0}
    IN  IF at = {} THEN << >>
        ELSE LET first == CHOOSE i \in at : \A j \in at : i <= j
             IN  <<SubSeq(text, first, Len(text)),
                   SubSeq(text, first + 2, MatchAt(text, first, pattern))>>

extractVersion(v, pattern) ==
    LET matches == FindStringSubmatch(v.VersionString, pattern)
    IN  IF Len(matches) < 2 THEN [ver |-> ZeroSemVer, ok |-> FALSE]
        ELSE Make(matches[2])

ParseVersionInfo(v, versionString) ==
    LET named == [v EXCEPT !.VersionString = versionString, !.Type = Unknown]
        cbdb == extractVersion(named, cbdbPattern)
        gpdb == extractVersion(named, gpdbPattern)
    IN  IF cbdb.ok THEN [named EXCEPT !.Type = CBDB, !.SemVer = cbdb.ver]
        ELSE IF gpdb.ok THEN [named EXCEPT !.Type = GPDB, !.SemVer = gpdb.ver]
             ELSE named

\* Bound of the number of pieces of a version text
MaxPieces == 2

\* The pieces a version text is written from
Pieces ==
    {<<"PostgreSQL 12.12 ">>,
     <<"(", GreenplumDatabase, "7", ".", "0", ".", "0", " build commit:bf07", ")">>,
     <<"(", ApacheCloudberry, "2", ".", "0", ".", "0", " build commit:a071", ")">>,
     <<"Some Other Database ", "1", ".", "0", ".", "0">>,
     <<"(", GreenplumDatabase, "7", ".", "0", " build", ")">>,
     <<"(", ApacheCloudberry, "2", ".", "0", ".", "0", " build">>,
     <<"(", ApacheCloudberry, "0", "2", ".", "0", ".", "0", ")">>,
     <<"(", GreenplumDatabase, "7", ".", "1", "2", ".", "0", ")">>}

\* One more piece is in the version text.
AddPiece(piece) ==
    /\ vpc = "write"
    /\ Len(versionText) < MaxPieces
    /\ versionText' = Append(versionText, piece)
    /\ UNCHANGED <<dbversion, verdict, vpc, queryVars, execVars, clusterVars,
                   genVars, scopeVars, reportVars, fileVars>>

RECURSIVE Concat(_)
\* The text the pieces make
Concat(pieces) ==
    IF pieces = << >> THEN << >> ELSE Head(pieces) \o Concat(Tail(pieces))

\* dbversion.ParseVersionInfo(versionStr)
ParseVersionInfoCall ==
    /\ vpc = "write"
    /\ dbversion' = ParseVersionInfo(dbversion, Concat(versionText))
    /\ vpc' = "parsed"
    /\ UNCHANGED <<versionText, verdict, queryVars, execVars, clusterVars,
                   genVars, scopeVars, reportVars, fileVars>>

\* The text of a list of components: 5, 5.1 or 5.1.0
VersionStr(components) ==
    IF Len(components) = 1 THEN <<DigitChars[components[1] + 1]>>
    ELSE IF Len(components) = 2
         THEN <<DigitChars[components[1] + 1], ".", DigitChars[components[2] + 1]>>
         ELSE <<DigitChars[components[1] + 1], ".", DigitChars[components[2] + 1],
                ".", DigitChars[components[3] + 1]>>

\* The targets X, X.Y and X.Y.Z
TargetVersions ==
    UNION {[1 .. n -> 0 .. MaxComponent] : n \in 1 .. 3}

\* The versions X.Y.Z
SemVers == [1 .. 3 -> 0 .. MaxComponent]

\* connection.Version.Before(t), .AtLeast(t) and .Is(t), of one target
CompareVersionCall(components) ==
    /\ vpc = "new"
    /\ verdict' = [target |-> components,
                   Before |-> Before(dbversion, VersionStr(components)),
                   AtLeast |-> AtLeast(dbversion, VersionStr(components)),
                   Is |-> Is(dbversion, VersionStr(components))]
    /\ vpc' = "compared"
    /\ UNCHANGED <<dbversion, versionText, queryVars, execVars, clusterVars,
                   genVars, scopeVars, reportVars, fileVars>>

\* No version is involved.
VersionIdle ==
    /\ dbversion = ZeroVersion
    /\ versionText = << >>
    /\ verdict = << >>
    /\ vpc = "idle"

\* No query is made.
QueryIdle ==
    /\ rows = << >>
    /\ getMirrors = << >>
    /\ query = << >>
    /\ selected = << >>

\* ------------------------------------------------------------------------
\* GetSegmentConfiguration and MustGetSegmentConfiguration
\* ------------------------------------------------------------------------
\* Bound of the number of booleans passed as getMirrors
MaxBools == 2

\* The values of the variadic getMirrors argument
GetMirrorsArgs == UNION {[1 .. n -> BOOLEAN] : n \in 0 .. MaxBools}

includeMirrors(gm) == Len(gm) = 1 /\ gm[1]

includeOnlyMirrors(gm) == Len(gm) = 2 /\ gm[2]

\* The query: the catalog it reads and its WHERE clause
Query(v, gm) ==
    IF IsGPDB(v) /\ Before(v, <<"6">>)
    THEN [from |-> "gp_segment_configuration s JOIN pg_filespace_entry e",
          where |-> IF includeOnlyMirrors(gm)
                    THEN "WHERE s.role = 'm' AND f.fsname = 'pg_system'"
                    ELSE IF includeMirrors(gm)
                         THEN "WHERE f.fsname = 'pg_system'"
                         ELSE "WHERE s.role = 'p' AND f.fsname = 'pg_system'"]
    ELSE [from |-> "gp_segment_configuration",
          where |-> IF includeOnlyMirrors(gm) THEN "WHERE role = 'm'"
                    ELSE IF includeMirrors(gm) THEN ""
                         ELSE "WHERE role = 'p'"]

\* The roles a WHERE clause lets through
RolesOf(where) ==
    CASE where \in {"WHERE role = 'p'",
                    "WHERE s.role = 'p' AND f.fsname = 'pg_system'"} -> {"p"}
      [] where \in {"WHERE role = 'm'",
                    "WHERE s.role = 'm' AND f.fsname = 'pg_system'"} -> {"m"}
      [] OTHER -> Roles

\* ORDER BY content, role DESC: row a may come before row b.
OrderedBefore(a, b) ==
    \/ a.ContentID < b.ContentID
    \/ a.ContentID = b.ContentID /\ (a.Role = "p" \/ b.Role = "m")

\* The orders the database may return the rows S in
Orderings(S) ==
    {f \in [1 .. Cardinality(S) -> S] :
        /\ \A i, j \in DOMAIN f : i /= j => f[i] /= f[j]
        /\ \A i, j \in DOMAIN f : i < j => OrderedBefore(f[i], f[j])}

\* connection.Select(&results, query): the rows the clause lets through, or
\* the error of the connection.
Select(table, q, ok) ==
    IF ok
    THEN [results |-> Orderings({table[k] : k \in {i \in DOMAIN table :
                                      table[i].Role \in RolesOf(q.where)}}),
          err |-> NilErr]
    ELSE [results |-> {<< >>}, err |-> <<"connection error">>]

\* What GetSegmentConfiguration may return
GetSegmentConfiguration(v, table, gm, ok) ==
    LET r == Select(table, Query(v, gm), ok)
    IN  {[results |-> res, err |-> r.err, fatal |-> FALSE] : res \in r.results}

\* What MustGetSegmentConfiguration may return
MustGetSegmentConfiguration(v, table, gm, ok) ==
    {[r EXCEPT !.fatal = r.err /= NilErr] :
        r \in GetSegmentConfiguration(v, table, <<includeMirrors(gm)>>, ok)}

\* One more row is in gp_segment_configuration.
AddRow(content, role) ==
    /\ selected = << >>
    /\ Len(rows) < MaxSegs
    /\ content \in ContentChoices(rows)
    /\ rows' = Append(rows, SegConfig(Len(rows) + 1, content, role, 1))
    /\ UNCHANGED <<getMirrors, query, selected, versionVars, execVars,
                   clusterVars, genVars, scopeVars, reportVars, fileVars>>

Queried(name, gm, q, r) ==
    /\ selected = << >>
    /\ getMirrors' = gm
    /\ query' = q
    /\ selected' = [name |-> name, results |-> r.results, err |-> r.err,
                    fatal |-> r.fatal]
    /\ UNCHANGED <<rows, versionVars, execVars, clusterVars, genVars,
                   scopeVars, reportVars, fileVars>>

\* segConfigs, err := GetSegmentConfiguration(connection, getMirrors...)
GetSegmentConfigurationCall(gm, ok) ==
    \E r \in GetSegmentConfiguration(dbversion, rows, gm, ok) :
        Queried("GetSegmentConfiguration", gm, Query(dbversion, gm), r)

\* segConfigs := MustGetSegmentConfiguration(connection, getMirrors...)
MustGetSegmentConfigurationCall(gm, ok) ==
    \E r \in MustGetSegmentConfiguration(dbversion, rows, gm, ok) :
        Queried("MustGetSegmentConfiguration", gm,
                Query(dbversion, <<includeMirrors(gm)>>), r)

\* The versions of the databases connected to
ConnectionVersions ==
    {NewVersion(<<"5", ".", "0", ".", "0">>),
     NewVersion(<<"7", ".", "0", ".", "0">>),
     [NewVersion(<<"2", ".", "0", ".", "0">>) EXCEPT !.Type = CBDB]}

\* ------------------------------------------------------------------------
\* GenerateAndExecuteCommand
\* ------------------------------------------------------------------------
\* Bound of the number of commands handed to the executor by
\* GenerateAndExecuteCommand
MaxExecuted == 1

\* cluster.ExecuteClusterCommandWithRetries(scope, commandList, 5, 1*time.Second)
GenerateAndExecuteAttempts == 5

\* ExecuteClusterCommandWithRetries is entered with the list cmds and the
\* attempt count n.
ExecEnter(cmds, n) ==
    /\ commandList' = cmds
    /\ maxAttempts' = n
    /\ mpc' = "launch"
    /\ launched' = 0
    /\ recvd' = 0
    /\ index' = 0
    /\ numErrors' = 0
    /\ output' = NoOutput
    /\ pc' = [i \in DOMAIN cmds |-> "idle"]
    /\ attempt' = [i \in DOMAIN cmds |-> 0]
    /\ command' = [i \in DOMAIN cmds |-> NewShellCommand(ON_SEGMENTS, 0, NoHost, << >>)]
    /\ out' = [i \in DOMAIN cmds |-> NoText]
    /\ err' = [i \in DOMAIN cmds |-> NoError]
    /\ stderr' = [i \in DOMAIN cmds |-> NoText]
    /\ begun' = [i \in DOMAIN cmds |-> 0]
    /\ hist' = [i \in DOMAIN cmds |-> << >>]
    /\ sleeps' = [i \in DOMAIN cmds |-> 0]
    /\ writers' = [i \in DOMAIN cmds |-> << >>]
    /\ reads' = {}
    /\ signals' = [i \in DOMAIN cmds |-> 0]

\* gplog.Verbose(verboseMsg); commandList := cluster.GenerateSSHCommandList(
\* scope, generator); the executor is entered with commandList.
GenerateAndExecuteCommandCall(s, shape) ==
    /\ cpc = "built"
    /\ LET r == GenerateSSHCommandList(cluster, s, shape)
       IN  /\ Len(r.commands) <= MaxExecuted
           /\ genScope' = s
           /\ generator' = shape
           /\ genCommands' = r.commands
           /\ genCalls' = r.calls
           /\ ExecEnter(r.commands, GenerateAndExecuteAttempts)
    /\ logged' = Append(logged, Verbose("verboseMsg"))
    /\ entry' = "GenerateAndExecuteCommand"
    /\ cpc' = "executing"
    /\ UNCHANGED <<segConfigs, cluster, got, reportScope, finished, remoteOutput,
                   messageFunc, noFatal, rpc, scopeVars, fileVars, dbVars>>

\* The topologies GenerateAndExecuteCommand is called on: none, a
\* coordinator alone, with a segment on another host, and with a standby
\* and a segment on two more hosts
ExampleTopologies ==
    {<< >>,
     <<SegConfig(1, 0 - 1, "p", 1)>>,
     <<SegConfig(1, 0 - 1, "p", 1), SegConfig(2, 0, "p", 2)>>,
     <<SegConfig(1, 0 - 1, "p", 1), SegConfig(2, 0 - 1, "m", 2),
       SegConfig(3, 0, "p", 3)>>}

\* ------------------------------------------------------------------------
\* Specification of the executor
\* ------------------------------------------------------------------------
\* The executor is entered with the list cmds and the attempt count n.
ExecInit(cmds, n) ==
    /\ commandList = cmds
    /\ maxAttempts = n
    /\ mpc = "launch"
    /\ launched = 0
    /\ recvd = 0
    /\ index = 0
    /\ numErrors = 0
    /\ output = NoOutput
    /\ pc = [i \in Units |-> "idle"]
    /\ attempt = [i \in Units |-> 0]
    /\ command = [i \in Units |-> NewShellCommand(ON_SEGMENTS, 0, NoHost, << >>)]
    /\ out = [i \in Units |-> NoText]
    /\ err = [i \in Units |-> NoError]
    /\ stderr = [i \in Units |-> NoText]
    /\ begun = [i \in Units |-> 0]
    /\ hist = [i \in Units |-> << >>]
    /\ sleeps = [i \in Units |-> 0]
    /\ writers = [i \in Units |-> << >>]
    /\ reads = {}
    /\ signals = [i \in Units |-> 0]

Init ==
    /\ \E n \in 0 .. MaxCmds :
          \/ /\ entry = "ExecuteClusterCommandWithRetries"
             /\ \E a \in AttemptChoices : ExecInit(FreshCommandList(n), a)
          \/ /\ entry = "ExecuteClusterCommand"
             /\ ExecInit(FreshCommandList(n), ExecuteClusterCommand)
    /\ ClusterIdle
    /\ GenIdle
    /\ ScopeIdle
    /\ ReportIdle
    /\ FileIdle
    /\ VersionIdle
    /\ QueryIdle

UnitNext(i) ==
    \/ UnitStart(i)
    \/ \E ok \in BOOLEAN : UnitEnd(i, ok)
    \/ UnitWake(i)

MainNext ==
    \/ MainLaunch
    \/ MainLaunchEnd
    \/ \E i \in Units : MainRecv(i)
    \/ MainCheck
    \/ MainReturn

MainStep == MainNext /\ UNCHANGED restVars

UnitStep(i) == i \in Units /\ UnitNext(i) /\ UNCHANGED restVars

Next ==
    \/ MainStep
    \/ \E i \in Units : UnitStep(i)

Spec == Init /\ [][Next]_vars

\* The topology: the caller assembles a list of records, any list the data
\* model allows, and calls NewCluster with it; no command is executed.
ClusterInit ==
    /\ entry = "none"
    /\ ExecInit(<< >>, ExecuteClusterCommand)
    /\ segConfigs = << >>
    /\ cluster = NoCluster
    /\ cpc = "new"
    /\ GenIdle
    /\ ScopeIdle
    /\ ReportIdle
    /\ FileIdle
    /\ VersionIdle
    /\ QueryIdle

ClusterNext ==
    \/ \E content \in Contents, role \in Roles, host \in 1 .. MaxHosts :
          AddSegConfig(content, role, host)
    \/ NewClusterCall

ClusterSpec == ClusterInit /\ [][ClusterNext]_vars

\* A topology is built and GenerateCommandList is called on it, with any
\* scope and any generator.
GenNext ==
    \/ ClusterNext
    \/ \E s \in Scopes, shape \in Generators : GenerateCommandListCall(s, shape)

GenSpec == ClusterInit /\ [][GenNext]_vars

\* A topology is built and GenerateSSHCommandList is called on it.
SSHNext ==
    \/ ClusterNext
    \/ \E s \in Scopes, shape \in Generators : GenerateSSHCommandListCall(s, shape)

SSHSpec == ClusterInit /\ [][SSHNext]_vars

\* A topology is built and the lookups by position are called on it.
LookupNext ==
    \/ ClusterNext
    \/ \E contentID \in Contents, role \in RoleArgs :
          GetForContentCall(contentID, role)

LookupSpec == ClusterInit /\ [][LookupNext]_vars

\* A topology is built, and lookups and command generations are called on
\* it one after the other, in any order.
TopologyNext ==
    \/ ClusterNext
    \/ \E contentID \in Contents, role \in RoleArgs :
          GetForContentCall(contentID, role)
    \/ \E hostname \in 1 .. MaxHosts : GetForHostCall(hostname)
    \/ \E s \in LaterScopes, shape \in Generators : GenerateCommandListCall(s, shape)
    \/ \E s \in LaterScopes, shape \in Generators :
          GenerateSSHCommandListCall(s, shape)
    \/ NextCall

TopologySpec == ClusterInit /\ [][TopologyNext]_vars

\* Nothing is executed.
ExecIdle ==
    /\ entry = "none"
    /\ ExecInit(<< >>, ExecuteClusterCommand)

\* A caller starts from any scope value, asks the predicates, and goes on
\* or-ing axis constants into the scope.
ScopeInit ==
    /\ ExecIdle /\ ClusterIdle /\ GenIdle /\ ReportIdle /\ FileIdle
    /\ VersionIdle /\ QueryIdle
    /\ scopeArg \in ScopeValues
    /\ answers = << >>
    /\ orred = << >>

ScopeNext ==
    \/ AskScope
    \/ \E ac \in AxisConstants : OrScope(ac[1], ac[2])

ScopeSpec == ScopeInit /\ [][ScopeNext]_vars

\* Commands generated with some scope come out of the executor, and the
\* report over them is passed to CheckClusterError.
ReportInit ==
    /\ ExecIdle /\ ClusterIdle /\ GenIdle /\ ScopeIdle /\ FileIdle
    /\ VersionIdle /\ QueryIdle
    /\ reportScope \in Scopes
    /\ finished = << >>
    /\ remoteOutput = NoOutput
    /\ messageFunc = OtherShape
    /\ noFatal = << >>
    /\ logged = << >>
    /\ rpc = "collect"

ReportNext ==
    \/ \E outcome \in Outcomes3 : AddCompleted(outcome)
    \/ \E mf \in {ContentString, HostString, OtherShape}, nf \in NoFatalArgs :
          CheckClusterErrorCall(mf, nf)

ReportSpec == ReportInit /\ [][ReportNext]_vars

\* A gpsegconfig_dump file is written line by line and then parsed.
FileInit ==
    /\ ExecIdle /\ ClusterIdle /\ GenIdle /\ ScopeIdle /\ ReportIdle
    /\ VersionIdle /\ QueryIdle
    /\ fileStatus \in FileStatuses
    /\ fileLines = << >>
    /\ fileResult = << >>
    /\ fpc = "write"

FileNext ==
    \/ \E fields \in LineChoices(Len(fileLines) + 1) : AddLine(fields)
    \/ GetSegmentConfigurationFromFileCall

FileSpec == FileInit /\ [][FileNext]_vars

\* A version X.Y.Z is asked how it compares with a target.
VersionInit ==
    /\ ExecIdle /\ ClusterIdle /\ GenIdle /\ ScopeIdle /\ ReportIdle /\ FileIdle
    /\ QueryIdle
    /\ \E v \in SemVers : dbversion = NewVersion(VersionStr(v))
    /\ versionText = << >>
    /\ verdict = << >>
    /\ vpc = "new"

VersionNext ==
    \E components \in TargetVersions : CompareVersionCall(components)

VersionSpec == VersionInit /\ [][VersionNext]_vars

\* A database of some version holds some rows and is asked for them.
QueryInit ==
    /\ ExecIdle /\ ClusterIdle /\ GenIdle /\ ScopeIdle /\ ReportIdle /\ FileIdle
    /\ dbversion \in ConnectionVersions
    /\ versionText = << >>
    /\ verdict = << >>
    /\ vpc = "connected"
    /\ rows = << >>
    /\ getMirrors = << >>
    /\ query = << >>
    /\ selected = << >>

QueryNext ==
    \/ \E content \in Contents, role \in Roles : AddRow(content, role)
    \/ \E gm \in GetMirrorsArgs, ok \in BOOLEAN : GetSegmentConfigurationCall(gm, ok)
    \/ \E gm \in GetMirrorsArgs, ok \in BOOLEAN :
          MustGetSegmentConfigurationCall(gm, ok)

QuerySpec == QueryInit /\ [][QueryNext]_vars

\* A version text is written and parsed into a GPDBVersion value: a fresh
\* one, or one that holds a version already.
ParseInit ==
    /\ ExecIdle /\ ClusterIdle /\ GenIdle /\ ScopeIdle /\ ReportIdle /\ FileIdle
    /\ QueryIdle
    /\ dbversion \in {ZeroVersion} \cup ConnectionVersions
    /\ versionText = << >>
    /\ verdict = << >>
    /\ vpc = "write"

ParseNext ==
    \/ \E piece \in Pieces : AddPiece(piece)
    \/ ParseVersionInfoCall

ParseSpec == ParseInit /\ [][ParseNext]_vars

\* GenerateAndExecuteCommand is called on a topology, with any scope and
\* any generator, and the executor runs the commands it was handed.
GenExecInit ==
    /\ ExecIdle
    /\ segConfigs \in ExampleTopologies
    /\ cluster = NewCluster(segConfigs)
    /\ cpc = "built"
    /\ GenIdle /\ ScopeIdle /\ ReportIdle /\ FileIdle /\ VersionIdle /\ QueryIdle

GenExecNext ==
    \/ \E s \in Scopes, shape \in Generators : GenerateAndExecuteCommandCall(s, shape)
    \/ MainStep
    \/ \E i \in Units : UnitStep(i)

GenExecSpec == GenExecInit /\ [][GenExecNext]_vars

\* The executor under fair scheduling: as long as the caller or some
\* launched goroutine can take a step, one of them does.  (The Go scheduler
\* runs a runnable goroutine; every process invocation and every sleep
\* returns.)  This is the least that fair scheduling of the units gives.
LiveSpec ==
    /\ Init
    /\ [][Next]_vars
    /\ WF_vars(Next)

\* ------------------------------------------------------------------------
\* Vocabulary of the properties
\* ------------------------------------------------------------------------
Returned == mpc = "done"

\* The outcomes of unit i's attempts, in order.
Outcomes(i) == [k \in DOMAIN hist[i] |-> hist[i][k].ok]

AllFailed(i) == \A k \in DOMAIN hist[i] : ~hist[i][k].ok

\* Attempts 1 .. N-1 failed and attempt N succeeded.
FailsThenSucceeds(i, N) ==
    /\ Len(hist[i]) = N
    /\ \A k \in 1 .. N : hist[i][k].ok = (k = N)

InSeq(c, cs) == \E k \in DOMAIN cs : cs[k] = c

\* ------------------------------------------------------------------------
\* C1. Join before read: once ExecuteClusterCommandWithRetries has all its
\* signals (it is about to build the report, or has returned), every unit
\* has signalled exactly once and is past its send, none is running an
\* attempt or sleeping, and every command of the list, and of the report,
\* has Completed = TRUE.
\* ------------------------------------------------------------------------
C1_JoinBeforeRead ==
    mpc \in {"report", "done"} =>
        /\ \A i \in Units :
              /\ pc[i] = "exit"
              /\ signals[i] = 1
              /\ commandList[i].Completed
        /\ Returned =>
              /\ Len(output.Commands) = length
              /\ \A i \in Units : output.Commands[i].Completed

C1_Witness ==
    /\ Returned
    /\ length >= 2
    /\ \E i \in Units : sleeps[i] > 0
    /\ \A i \in Units : output.Commands[i].Completed

\* ------------------------------------------------------------------------
\* C2. A command that fails on attempts 1 .. N-1 and succeeds on attempt
\* N = maxAttempts >= 1 returns Completed, with Error = nil and a RetryError
\* of exactly N-1 wrapped errors, tagged with the attempts 1 .. N-1 in that
\* order; for N >= 2 the RetryError is not nil and the command is listed in
\* RetriedCommands.
\* ------------------------------------------------------------------------
C2_RetryTrail ==
    Returned =>
        \A i \in Units :
            (maxAttempts >= 1 /\ FailsThenSucceeds(i, maxAttempts)) =>
                LET c == output.Commands[i] IN
                /\ c = commandList[i]
                /\ c.Completed
                /\ c.Error = NoError
                /\ Len(Joined(c.RetryError)) = maxAttempts - 1
                /\ \A k \in 1 .. maxAttempts - 1 :
                      /\ Joined(c.RetryError)[k].attempt = k
                      /\ Joined(c.RetryError)[k].err = k
                      /\ Joined(c.RetryError)[k].stderr = k
                /\ maxAttempts >= 2 =>
                      /\ c.RetryError /= NoRetryError
                      /\ InSeq(c, output.RetriedCommands)

C2_Witness ==
    /\ Returned
    /\ maxAttempts = 3
    /\ \E i \in Units :
          /\ FailsThenSucceeds(i, 3)
          /\ Len(Joined(output.Commands[i].RetryError)) = 2

\* ------------------------------------------------------------------------
\* C3. A command whose every attempt fails, with maxAttempts = N >= 1: while
\* it runs, each attempt after the first is preceded by one sleep (sleeps =
\* attempts ended), it never sleeps after attempt N, and once it is finished
\* exactly N attempts were made, N-1 sleeps were taken, and the command is
\* Completed with Error /= nil.
\* ------------------------------------------------------------------------
C3_AllFail ==
    \A i \in Units :
        (maxAttempts >= 1 /\ AllFailed(i)) =>
            /\ pc[i] = "run" => sleeps[i] = Len(hist[i])
            /\ pc[i] = "sleep" =>
                  /\ sleeps[i] = Len(hist[i])
                  /\ Len(hist[i]) < maxAttempts
            /\ pc[i] \in {"send", "exit"} =>
                  /\ Len(hist[i]) = maxAttempts
                  /\ begun[i] = maxAttempts
                  /\ sleeps[i] = maxAttempts - 1
                  /\ commandList[i].Completed
                  /\ commandList[i].Error /= NoError

C3_Witness ==
    /\ Returned
    /\ maxAttempts = 3
    /\ \E i \in Units :
          /\ Len(hist[i]) = 3
          /\ AllFailed(i)
          /\ sleeps[i] = 2
          /\ output.Commands[i].Error /= NoError

\* ------------------------------------------------------------------------
\* C4. A run with a single attempt (maxAttempts = 1, which is what
\* ExecuteClusterCommand passes): every command is attempted once, no unit
\* sleeps, NumErrors is the number of commands whose attempt failed,
\* FailedCommands holds exactly those commands, RetriedCommands is empty.
\* ------------------------------------------------------------------------
FailedOnce == {i \in Units : Len(hist[i]) = 1 /\ ~hist[i][1].ok}

C4_SingleAttempt ==
    /\ entry = "ExecuteClusterCommand" => maxAttempts = 1
    /\ (Returned /\ maxAttempts = 1) =>
          /\ \A i \in Units : Len(hist[i]) = 1 /\ sleeps[i] = 0
          /\ output.NumErrors = Cardinality(FailedOnce)
          /\ Len(output.FailedCommands) = Cardinality(FailedOnce)
          /\ \A i \in Units :
                InSeq(commandList[i], output.FailedCommands) <=> i \in FailedOnce
          /\ output.RetriedCommands = << >>

\* Three commands, only command 2 fails.
C4_Witness ==
    /\ Returned
    /\ entry = "ExecuteClusterCommand"
    /\ length = 3
    /\ Outcomes(1) = <<TRUE>> /\ Outcomes(2) = <<FALSE>> /\ Outcomes(3) = <<TRUE>>
    /\ output.NumErrors = 1
    /\ output.FailedCommands = <<commandList[2]>>
    /\ output.RetriedCommands = << >>

\* ------------------------------------------------------------------------
\* C5. No short-circuit: a unit finishes only at its own outcome (its last
\* attempt succeeded, or all of its maxAttempts attempts failed), whatever
\* the other commands did; the report lists every command, the commands
\* whose attempts all failed in FailedCommands and the others with Error =
\* nil outside it.
\* ------------------------------------------------------------------------
Max0(x) == IF x > 0 THEN x ELSE 0

Succeeded(i) == hist[i] /= << >> /\ hist[i][Len(hist[i])].ok

Exhausted(i) == AllFailed(i) /\ Len(hist[i]) = Max0(maxAttempts)

C5_NoShortCircuit ==
    /\ \A i \in Units : pc[i] \in {"send", "exit"} => Succeeded(i) \/ Exhausted(i)
    /\ Returned =>
          /\ Len(output.Commands) = length
          /\ \A i \in Units :
                /\ (Exhausted(i) /\ maxAttempts >= 1) =>
                      /\ output.Commands[i].Error /= NoError
                      /\ InSeq(output.Commands[i], output.FailedCommands)
                /\ Succeeded(i) =>
                      /\ output.Commands[i].Error = NoError
                      /\ ~InSeq(output.Commands[i], output.FailedCommands)

C5_Witness ==
    /\ Returned
    /\ maxAttempts >= 2
    /\ \E i, j \in Units :
          /\ Exhausted(i)
          /\ InSeq(output.Commands[i], output.FailedCommands)
          /\ Succeeded(j) /\ Len(hist[j]) >= 2
          /\ ~InSeq(output.Commands[j], output.FailedCommands)

\* ------------------------------------------------------------------------
\* C6. Within one command the attempts are totally ordered: they are
\* numbered 1, 2, ... without gaps and never beyond maxAttempts; at most one
\* is in progress; attempt k+1 starts only after attempt k has failed and
\* the unit has slept; no attempt follows a successful one.
\* ------------------------------------------------------------------------
C6_AttemptsOrdered ==
    \A i \in Units :
        /\ \A k \in DOMAIN hist[i] :
              /\ hist[i][k].n = k
              /\ k <= maxAttempts
              /\ k < Len(hist[i]) => ~hist[i][k].ok
        /\ begun[i] - Len(hist[i]) = (IF pc[i] = "run" THEN 1 ELSE 0)
        /\ begun[i] <= Max0(maxAttempts)
        /\ pc[i] = "run" =>
              /\ attempt[i] = begun[i]
              /\ AllFailed(i)
              /\ sleeps[i] = Len(hist[i])

\* No order across commands: a later command has finished after a retry
\* while an earlier one is still in its second attempt.
C6_Witness ==
    \E i, j \in Units :
        /\ i < j
        /\ pc[j] \in {"send", "exit"} /\ Len(hist[j]) >= 2
        /\ pc[i] = "run" /\ attempt[i] = 2

\* ------------------------------------------------------------------------
\* C7. Slot ownership: slot s is written by unit s only, once, when unit s
\* is through with its attempts, and holds the fresh command until then; a
\* unit reads no slot but its own; the caller reads a slot only after the
\* slot's unit has signalled.
\* ------------------------------------------------------------------------
C7_SlotOwnership ==
    /\ \A s \in Units :
          /\ Len(writers[s]) <= 1
          /\ \A k \in DOMAIN writers[s] : writers[s][k] = s
          /\ Len(writers[s]) = 1 <=> pc[s] \in {"send", "exit"}
          /\ Len(writers[s]) = 1 => begun[s] = Len(hist[s])
          /\ commandList[s] = IF pc[s] \in {"send", "exit"}
                              THEN command[s]
                              ELSE FreshCommandList(length)[s]
    /\ \A r \in reads :
          IF r.by = 0 THEN r.signalled ELSE r.slot = r.by
    /\ mpc = "check" => signals[index] = 1 /\ pc[index] = "exit"

\* The caller has read a slot while another unit is still running.
C7_Witness ==
    /\ mpc = "recv"
    /\ \E r \in reads : r.by = 0 /\ r.signalled
    /\ \E j \in Units : pc[j] = "run" /\ writers[j] = << >>

\* ------------------------------------------------------------------------
\* C8. Termination of the aggregate wait, under fair scheduling and
\* returning processes: ExecuteClusterCommandWithRetries eventually returns;
\* a unit never sends more than one signal and at the return every unit has
\* sent exactly one and the caller has received length signals; from some
\* point on the caller has returned and every unit is past its send, so no
\* unit stays blocked on the channel; a unit that is starting, running or
\* sleeping can always take its next step, whatever the other units do; with
\* an empty list the caller never waits.
\* ------------------------------------------------------------------------
C8_Terminates ==
    /\ <>[](Returned /\ \A i \in Units : pc[i] = "exit")
    /\ [](\A i \in Units : signals[i] <= 1)
    /\ [](Returned =>
            /\ recvd = length
            /\ \A i \in Units : signals[i] = 1)
    /\ [](\A i \in Units :
            pc[i] \in {"start", "run", "sleep"} => ENABLED UnitNext(i))
    /\ [](length = 0 => mpc \notin {"recv", "check"})

C8_Witness ==
    /\ Returned
    /\ length = MaxCmds
    /\ recvd = length
    /\ \A i \in Units : signals[i] = 1 /\ Len(hist[i]) >= 2

\* ------------------------------------------------------------------------
\* C9 (as stated). In the report every completed command is in exactly one
\* group: FailedCommands (its final attempt failed, Error /= nil),
\* RetriedCommands (Error = nil and an earlier attempt failed), or neither
\* list (its first attempt succeeded); the two lists are disjoint, and a
\* command whose attempts all failed is in FailedCommands only, with a
\* RetryError.
\* ------------------------------------------------------------------------
InFailed(i) == InSeq(output.Commands[i], output.FailedCommands)

InRetried(i) == InSeq(output.Commands[i], output.RetriedCommands)

FinalFailed(i) == hist[i] /= << >> /\ ~hist[i][Len(hist[i])].ok

EarlierFailed(i) == \E k \in DOMAIN hist[i] : k < Len(hist[i]) /\ ~hist[i][k].ok

FirstSucceeded(i) == hist[i] /= << >> /\ hist[i][1].ok

\* What C9 says of the first two groups and of the two lists.
C9_Groups(i) ==
    /\ output.Commands[i].Completed
    /\ InFailed(i) <=> (FinalFailed(i) /\ output.Commands[i].Error /= NoError)
    /\ InRetried(i) <=> (output.Commands[i].Error = NoError /\ EarlierFailed(i))
    /\ ~(InFailed(i) /\ InRetried(i))
    /\ (hist[i] /= << >> /\ AllFailed(i)) =>
          /\ InFailed(i)
          /\ ~InRetried(i)
          /\ output.Commands[i].RetryError /= NoRetryError

C9_AsStated ==
    Returned =>
        \A i \in Units :
            /\ C9_Groups(i)
            /\ (~InFailed(i) /\ ~InRetried(i)) <=> FirstSucceeded(i)

\* ------------------------------------------------------------------------
\* C9 (amended). As above, but the third group, the commands in neither
\* list, holds the commands whose first attempt succeeded and the commands
\* for which no attempt was made, which is every command when
\* maxAttempts <= 0.
\* ------------------------------------------------------------------------
C9_Partition ==
    Returned =>
        \A i \in Units :
            /\ C9_Groups(i)
            /\ (~InFailed(i) /\ ~InRetried(i)) <=>
                  (FirstSucceeded(i) \/ hist[i] = << >>)
            /\ hist[i] = << >> <=> maxAttempts <= 0

\* One command in each group.
C9_Witness ==
    /\ Returned
    /\ \E i, j, k \in Units :
          /\ InFailed(i) /\ AllFailed(i) /\ Len(hist[i]) >= 2
          /\ InRetried(j) /\ EarlierFailed(j)
          /\ ~InFailed(k) /\ ~InRetried(k) /\ FirstSucceeded(k)

\* ------------------------------------------------------------------------
\* C10. After NewCluster, whatever the order of the records, every content
\* id whose ByContent entry holds both a primary and a mirror has the
\* primary first and the mirror second.
\* ------------------------------------------------------------------------
RolesAt(content) ==
    {cluster.Segments[cluster.ByContent[content][k]].Role :
        k \in DOMAIN cluster.ByContent[content]}

C10_PrimaryFirst ==
    cpc = "built" =>
        /\ cluster.Segments = segConfigs
        /\ \A k \in DOMAIN segConfigs :
              segConfigs[k].ContentID \in DOMAIN cluster.ByContent
        /\ \A content \in DOMAIN cluster.ByContent :
              ({"p", "m"} \subseteq RolesAt(content)) =>
                  /\ cluster.Segments[cluster.ByContent[content][1]].Role = "p"
                  /\ cluster.Segments[cluster.ByContent[content][2]].Role = "m"

\* The mirror of a content id came before its primary in the input.
C10_Witness ==
    /\ cpc = "built"
    /\ \E j, k \in DOMAIN segConfigs :
          /\ j < k
          /\ segConfigs[j].ContentID = segConfigs[k].ContentID
          /\ segConfigs[j].Role = "m" /\ segConfigs[k].Role = "p"
          /\ cluster.ByContent[segConfigs[j].ContentID] = <<k, j>>


\* ------------------------------------------------------------------------
\* Vocabulary of the properties of a topology: what the input records say,
\* by position and role, whatever the maps of the cluster hold.
\* ------------------------------------------------------------------------
Records == DOMAIN segConfigs

Positions == {segConfigs[k].ContentID : k \in Records}

Hosts == {segConfigs[k].Hostname : k \in Records}

\* The records at a position with a role
NodesAt(content, role) ==
    {k \in Records : segConfigs[k].ContentID = content /\ segConfigs[k].Role = role}

RecordsOn(host) == {k \in Records : segConfigs[k].Hostname = host}

PositionsOn(host) == {segConfigs[k].ContentID : k \in RecordsOn(host)}

\* Every position has at most one primary and at most one mirror.
WellFormed ==
    \A j, k \in Records :
        (/\ segConfigs[j].ContentID = segConfigs[k].ContentID
         /\ segConfigs[j].Role = segConfigs[k].Role) => j = k

\* Every position of the topology has its primary.
PrimaryEverywhere == \A content \in Positions : NodesAt(content, "p") /= {}

CoordinatorHosts == {segConfigs[k].Hostname : k \in NodesAt(0 - 1, "p")}

StandbyHosts == {segConfigs[k].Hostname : k \in NodesAt(0 - 1, "m")}

\* The axes of a scope, read off its binary digits
HostsAxis(s) == s % 2 = 1
CoordinatorAxis(s) == (s \div 2) % 2 = 1
LocalAxis(s) == (s \div 4) % 2 = 1
MirrorsAxis(s) == (s \div 8) % 2 = 1

GeneratedContents == [k \in DOMAIN genCommands |-> genCommands[k].Content]

GeneratedHosts == [k \in DOMAIN genCommands |-> genCommands[k].Host]

GotCommand(host) == \E k \in DOMAIN genCommands : genCommands[k].Host = host

\* ------------------------------------------------------------------------
\* C11. GenerateCommandList with a per-content generator returns one
\* command per position of the topology, in ascending order of position,
\* each with Content = the position, Host = "" and the argv the generator
\* gave for that position; position -1 is among them exactly when the scope
\* includes the coordinator and the topology has position -1; the other
\* three axes of the scope do not change which positions are generated.
\* ------------------------------------------------------------------------
C11_NodeLevel ==
    (cpc = "generated" /\ generator = ContentArgv) =>
        LET want == IF CoordinatorAxis(genScope) THEN Positions
                    ELSE Positions \ {0 - 1}
        IN  /\ Len(genCommands) = Cardinality(want)
            /\ {genCommands[k].Content : k \in DOMAIN genCommands} = want
            /\ \A j, k \in DOMAIN genCommands :
                  j < k => genCommands[j].Content < genCommands[k].Content
            /\ \A k \in DOMAIN genCommands :
                  /\ genCommands[k].Host = NoHost
                  /\ genCommands[k].Scope = genScope
                  /\ genCommands[k].CommandString = GenerateArgv(genCommands[k].Content)
            /\ genCalls = GeneratedContents
            /\ (\E k \in DOMAIN genCommands : genCommands[k].Content = 0 - 1)
                  <=> (CoordinatorAxis(genScope) /\ (0 - 1) \in Positions)
            /\ \A s \in Scopes :
                  CoordinatorAxis(s) = CoordinatorAxis(genScope) =>
                      GenerateCommandList(cluster, s, ContentArgv,
                          [arg \in Targets |-> GenerateArgv(arg)]).calls
                          = GeneratedContents

\* The records come with position 0 before position -1, the coordinator is
\* included and has a mirror: two commands, -1 first.
C11_Witness ==
    /\ cpc = "generated" /\ generator = ContentArgv
    /\ genScope = INCLUDE_COORDINATOR + ON_LOCAL
    /\ Len(segConfigs) = 3
    /\ segConfigs[1].ContentID = 0
    /\ NodesAt(0 - 1, "p") /= {} /\ NodesAt(0 - 1, "m") /= {}
    /\ GeneratedContents = <<0 - 1, 0>>

\* ------------------------------------------------------------------------
\* C12. GenerateCommandList with a per-host generator, on a topology with
\* at most one primary and one mirror per position, under every scope:
\* every host that carries a record of a position other than -1 gets a
\* command; the host of the coordinator (position -1, role p) is left out
\* only when the scope excludes the coordinator and the host carries no
\* other record.
\* ------------------------------------------------------------------------
C12_DataHostsKept ==
    (cpc = "generated" /\ generator = HostArgv /\ WellFormed) =>
        /\ \A host \in Hosts :
              (PositionsOn(host) \ {0 - 1} /= {}) => GotCommand(host)
        /\ \A host \in CoordinatorHosts :
              ~GotCommand(host) =>
                  /\ ~CoordinatorAxis(genScope)
                  /\ Cardinality(RecordsOn(host)) = 1

\* The coordinator is excluded: its host is kept in one topology because it
\* also carries position 0, and in another the host of the coordinator is
\* left out while a host with position 0 is kept.
C12_Witness ==
    /\ cpc = "generated" /\ generator = HostArgv /\ WellFormed
    /\ ~CoordinatorAxis(genScope)
    /\ \E host \in CoordinatorHosts :
          /\ ~GotCommand(host)
          /\ \E other \in Hosts : 0 \in PositionsOn(other) /\ GotCommand(other)

\* ------------------------------------------------------------------------
\* C13 (as stated). With a per-host generator a host is skipped exactly
\* when it carries exactly one position and it is the coordinator's host
\* and the scope excludes the coordinator, or it is the host of the
\* coordinator's mirror and the scope excludes mirrors; every other host
\* gets exactly one command, in first-seen order of the hosts, with Host =
\* the host and Content = -2.  Stated for the topologies in which every
\* position has its primary and no role is held twice at a position.
\* ------------------------------------------------------------------------
C13_Skipped(host) ==
    /\ Cardinality(PositionsOn(host)) = 1
    /\ \/ host \in CoordinatorHosts /\ ~CoordinatorAxis(genScope)
       \/ host \in StandbyHosts /\ ~MirrorsAxis(genScope)

C13_AsStated ==
    (cpc = "generated" /\ generator = HostArgv /\ WellFormed /\ PrimaryEverywhere) =>
        /\ \A host \in Hosts : GotCommand(host) <=> ~C13_Skipped(host)
        /\ \A j, k \in DOMAIN genCommands :
              j < k => genCommands[j].Host /= genCommands[k].Host
        /\ \A k \in DOMAIN genCommands :
              /\ genCommands[k].Content = NoContent
              /\ genCommands[k].Host \in Hosts
        /\ \A j, k \in DOMAIN genCommands :
              j < k => \E m \in RecordsOn(genCommands[j].Host) :
                          \A n \in RecordsOn(genCommands[k].Host) : m < n

\* ------------------------------------------------------------------------
\* C14 (as stated). Topology [coordinator on coord, its mirror on standby,
\* position 0 primary on seg1], per-host generator: scope ON_HOSTS gives the
\* hosts [seg1]; scope ON_HOSTS | INCLUDE_COORDINATOR gives [coord, standby,
\* seg1].  (Hosts are numbered in first-seen order: coord 1, standby 2,
\* seg1 3.)
\* ------------------------------------------------------------------------
C14_Topology ==
    segConfigs = <<SegConfig(1, 0 - 1, "p", 1), SegConfig(2, 0 - 1, "m", 2),
                   SegConfig(3, 0, "p", 3)>>

C14_AsStated ==
    (cpc = "generated" /\ generator = HostArgv /\ C14_Topology) =>
        /\ genScope = ON_HOSTS => GeneratedHosts = <<3>>
        /\ genScope = ON_HOSTS + INCLUDE_COORDINATOR => GeneratedHosts = <<1, 2, 3>>

\* ------------------------------------------------------------------------
\* C14 (amended). On that topology scope ON_HOSTS gives [seg1]; scope
\* ON_HOSTS | INCLUDE_COORDINATOR, which still excludes mirrors, gives
\* [coord, seg1]; scope ON_HOSTS | INCLUDE_COORDINATOR | INCLUDE_MIRRORS
\* gives [coord, standby, seg1].
\* ------------------------------------------------------------------------
C14_Scenario ==
    (cpc = "generated" /\ generator = HostArgv /\ C14_Topology) =>
        /\ genScope = ON_HOSTS => GeneratedHosts = <<3>>
        /\ genScope = ON_HOSTS + INCLUDE_COORDINATOR => GeneratedHosts = <<1, 3>>
        /\ genScope = ON_HOSTS + INCLUDE_COORDINATOR + INCLUDE_MIRRORS =>
              GeneratedHosts = <<1, 2, 3>>

C14_Witness ==
    /\ cpc = "generated" /\ generator = HostArgv /\ C14_Topology
    /\ genScope = ON_HOSTS + INCLUDE_COORDINATOR
    /\ GeneratedHosts = <<1, 3>>


\* ------------------------------------------------------------------------
\* C15 (as stated). On a topology with at most one primary and one mirror
\* per position, for every position and role selector (none or "p": the
\* primary; "m": the mirror), GetDbidForContent, GetPortForContent,
\* GetHostForContent and GetDirForContent return the field of the record at
\* that position that has the selected role, and return -1, -1, "" and ""
\* exactly when the topology has no record with that position and role.
\* ------------------------------------------------------------------------
C15_AsStated ==
    (cpc = "got" /\ WellFormed) =>
        LET wanted == IF got.role = <<"m">> THEN "m" ELSE "p"
            nodes == NodesAt(got.contentID, wanted)
        IN  IF nodes = {}
            THEN /\ got.Dbid = 0 - 1
                 /\ got.Port = 0 - 1
                 /\ got.Host = NoHost
                 /\ got.Dir = NoDir
            ELSE \E k \in nodes :
                    /\ got.Dbid = segConfigs[k].DbID
                    /\ got.Port = segConfigs[k].Port
                    /\ got.Host = segConfigs[k].Hostname
                    /\ got.Dir = segConfigs[k].DataDir

\* ------------------------------------------------------------------------
\* C17 (as stated). On a topology with at most one primary and one mirror
\* per position, every command GenerateSSHCommandList produces has the argv
\* [bash, -c, cmd] exactly when its target host (for a per-host generator
\* the host itself, for a per-content generator the host of the primary of
\* the position) is the host of the coordinator primary or the scope has
\* ON_LOCAL, and otherwise [ssh, -o, StrictHostKeyChecking=no,
\* <user>@<target host>, cmd]; the targets are those GenerateCommandList
\* gives for the scope, in the same order.
\* ------------------------------------------------------------------------
PrimaryHost(content) ==
    IF NodesAt(content, "p") = {} THEN NoHost
    ELSE segConfigs[CHOOSE k \in NodesAt(content, "p") : TRUE].Hostname

C17_Target(k) ==
    IF generator = HostString THEN genCommands[k].Host
    ELSE PrimaryHost(genCommands[k].Content)

C17_Argv(k) ==
    LET cmd == GenerateString(genCalls[k])
    IN  IF C17_Target(k) = PrimaryHost(0 - 1) \/ LocalAxis(genScope)
        THEN <<"bash", "-c", cmd>>
        ELSE <<"ssh", "-o", "StrictHostKeyChecking=no",
               <<CurrentUser, "@", C17_Target(k)>>, cmd>>

C17_AsStated ==
    (cpc = "sshgenerated" /\ generator \in {ContentString, HostString} /\ WellFormed) =>
        LET plain == GenerateCommandList(cluster, genScope,
                         IF generator = HostString THEN HostArgv ELSE ContentArgv,
                         [arg \in Targets |-> GenerateArgv(arg)])
        IN  /\ \A k \in DOMAIN genCommands :
                  genCommands[k].CommandString = C17_Argv(k)
            /\ GeneratedContents = [k \in DOMAIN plain.commands |-> plain.commands[k].Content]
            /\ GeneratedHosts = [k \in DOMAIN plain.commands |-> plain.commands[k].Host]
            /\ genCalls = plain.calls

\* ------------------------------------------------------------------------
\* C18. GenerateCommandList with a generator of neither argv shape ends in
\* the fatal: no command was created and the generator was not invoked; with
\* a generator of one of the two shapes it returns.
\* ------------------------------------------------------------------------
C18_InvalidGenerator ==
    /\ cpc = Fatal =>
          /\ generator \notin {ContentArgv, HostArgv}
          /\ genCommands = << >>
          /\ genCalls = << >>
    /\ cpc = "generated" => generator \in {ContentArgv, HostArgv}

\* A string generator (the shape GenerateSSHCommandList takes) was passed,
\* on a topology with a position and a host to generate for.
C18_Witness ==
    /\ cpc = Fatal
    /\ generator = HostString
    /\ genScope = ON_HOSTS + INCLUDE_COORDINATOR
    /\ Len(segConfigs) >= 2
    /\ cluster.Hostnames /= << >>


\* ------------------------------------------------------------------------
\* C16. For every Scope value (0 .. 255): of each pair of predicates
\* (segments/hosts, remote/local, excludes/includes coordinator, excludes/
\* includes mirrors) exactly one holds, and which one is decided by the
\* pair's own bit alone; or-ing a constant of one axis into a scope leaves
\* the answers of the other three axes as they were; scope 0 is per segment,
\* remote, coordinator excluded, mirrors excluded.
\* ------------------------------------------------------------------------
C16_Pairs ==
    answers /= << >> =>
        /\ answers.scopeIsSegments /= answers.scopeIsHosts
        /\ answers.scopeIsRemote /= answers.scopeIsLocal
        /\ answers.scopeExcludesCoordinator /= answers.scopeIncludesCoordinator
        /\ answers.scopeExcludesMirrors /= answers.scopeIncludesMirrors
        /\ answers.scopeIsHosts = HostsAxis(scopeArg)
        /\ answers.scopeIncludesCoordinator = CoordinatorAxis(scopeArg)
        /\ answers.scopeIsLocal = LocalAxis(scopeArg)
        /\ answers.scopeIncludesMirrors = MirrorsAxis(scopeArg)
        /\ scopeArg = 0 =>
              /\ answers.scopeIsSegments
              /\ answers.scopeIsRemote
              /\ answers.scopeExcludesCoordinator
              /\ answers.scopeExcludesMirrors

\* A step that or-s a constant of one axis keeps the other axes' answers.
C16_OrStep ==
    (answers /= << >> /\ answers' /= << >>) =>
        LET axis == orred'[1]
        IN  /\ axis /= "hosts" =>
                  /\ answers'.scopeIsSegments = answers.scopeIsSegments
                  /\ answers'.scopeIsHosts = answers.scopeIsHosts
            /\ axis /= "coordinator" =>
                  /\ answers'.scopeExcludesCoordinator = answers.scopeExcludesCoordinator
                  /\ answers'.scopeIncludesCoordinator = answers.scopeIncludesCoordinator
            /\ axis /= "local" =>
                  /\ answers'.scopeIsRemote = answers.scopeIsRemote
                  /\ answers'.scopeIsLocal = answers.scopeIsLocal
            /\ axis /= "mirrors" =>
                  /\ answers'.scopeExcludesMirrors = answers.scopeExcludesMirrors
                  /\ answers'.scopeIncludesMirrors = answers.scopeIncludesMirrors

C16_ScopeAxes == [](C16_Pairs) /\ [][C16_OrStep]_vars

\* ON_LOCAL was or-ed into a scope that has ON_HOSTS, INCLUDE_MIRRORS and a
\* bit beyond the four axes.
C16_Witness ==
    /\ answers /= << >>
    /\ orred = <<"local", ON_LOCAL>>
    /\ scopeArg = 16 + INCLUDE_MIRRORS + ON_LOCAL + ON_HOSTS
    /\ answers.scopeIsLocal /\ answers.scopeIsHosts
    /\ answers.scopeIncludesMirrors /\ answers.scopeExcludesCoordinator

\* ------------------------------------------------------------------------
\* C19. CheckClusterError with a messageFunc of one of the two shapes, on
\* every report: it first logs, for each retried command in order, its
\* diagnostics at DEBUG level; with no failed command it then returns and
\* has logged nothing else (no error, no fatal); otherwise it logs for each
\* failed command in order one ERROR-level line (and the command at VERBOSE
\* level), and only after all of them ends with one summary: the ERROR-level
\* finalErrMsg, returning, when noFatal is the single argument true, and the
\* fatal, which ends the process, in every other case.
\* ------------------------------------------------------------------------
C19_Retried == remoteOutput.RetriedCommands

C19_Failed == remoteOutput.FailedCommands

C19_ErrorPolicy ==
    (rpc \in {"returned", Fatal} /\ messageFunc \in {ContentString, HostString}) =>
        LET R == Len(C19_Retried)
            F == Len(C19_Failed)
            rest == SubSeq(logged, 2 * R + 1, Len(logged))
        IN  /\ Len(logged) >= 2 * R
            /\ \A j \in 1 .. R :
                  /\ logged[2 * j - 1].level = "DEBUG"
                  /\ logged[2 * j - 1].msg[Len(logged[2 * j - 1].msg)]
                        = C19_Retried[j].RetryError
                  /\ logged[2 * j] = Debug(<<"Command was", C19_Retried[j].CommandString>>)
            /\ F = 0 => (rpc = "returned" /\ rest = << >>)
            /\ F > 0 =>
                  /\ Len(rest) = 2 * F + 1
                  /\ \A j \in 1 .. F :
                        /\ rest[2 * j - 1].level = "ERROR"
                        /\ rest[2 * j - 1].msg[Len(rest[2 * j - 1].msg)]
                              = <<"with error", C19_Failed[j].Error, C19_Failed[j].Stderr>>
                        /\ rest[2 * j] = Verbose(<<"Command was", C19_Failed[j].CommandString>>)
                  /\ IF noFatal = <<TRUE>>
                     THEN /\ rpc = "returned"
                          /\ rest[2 * F + 1] = Error(FinalErrMsg)
                          /\ \A k \in DOMAIN logged : logged[k].level /= "FATAL"
                     ELSE /\ rpc = Fatal
                          /\ rest[2 * F + 1].level = "FATAL"
                          /\ rest[2 * F + 1].msg.numErrors = F
                          /\ \A k \in 1 .. (Len(logged) - 1) : logged[k].level /= "FATAL"

\* A report with a retried command and two failed ones, noFatal given as
\* false: the fatal.
C19_Witness ==
    /\ rpc = Fatal
    /\ messageFunc = HostString
    /\ noFatal = <<FALSE>>
    /\ Len(C19_Retried) = 1
    /\ Len(C19_Failed) = 2
    /\ Len(logged) = 7

\* ------------------------------------------------------------------------
\* C20. GetSegmentConfigurationFromFile on a file that opens and reads to
\* its end: when every line has 9 or 10 fields and integers for id, position
\* and port, it returns no error and one record per line, in file order,
\* with the data directory equal to field 10 of a line of 10 fields and ""
\* for a line of 9; when some line has another number of fields (none, 8,
\* 11, ...) or an id, position or port that is not an integer, it returns
\* an error that names the offending line or field, and no records.
\* ------------------------------------------------------------------------
\* The texts that are integers, and their values
C20_IntOf(text) ==
    CASE text = <<"-", "1">> -> 0 - 1
      [] Len(text) = 1 /\ IsDigit(text[1]) -> DigitValue(text[1])
      [] Len(text) = 3 /\ text[1] = "6" /\ text[2] = "0" /\ IsDigit(text[3]) ->
            600 + DigitValue(text[3])
      [] OTHER -> 0 - 999

C20_IsInt(text) == C20_IntOf(text) /= 0 - 999

C20_Good(fields) ==
    /\ Len(fields) \in {9, 10}
    /\ C20_IsInt(fields[1]) /\ C20_IsInt(fields[2]) /\ C20_IsInt(fields[7])

C20_FileParse ==
    (fpc = "parsed" /\ fileStatus = "ok") =>
        IF \A k \in DOMAIN fileLines : C20_Good(fileLines[k].fields)
        THEN /\ fileResult.err = NilErr
             /\ Len(fileResult.results) = Len(fileLines)
             /\ \A k \in DOMAIN fileLines :
                   LET fields == fileLines[k].fields
                       seg == fileResult.results[k]
                   IN  /\ seg.DataDir = IF Len(fields) = 10 THEN fields[10] ELSE << >>
                       /\ seg.DbID = C20_IntOf(fields[1])
                       /\ seg.ContentID = C20_IntOf(fields[2])
                       /\ seg.Port = C20_IntOf(fields[7])
                       /\ seg.Role = fields[3]
                       /\ seg.Hostname = fields[8]
        ELSE LET bad == CHOOSE k \in DOMAIN fileLines :
                            /\ ~C20_Good(fileLines[k].fields)
                            /\ \A j \in 1 .. (k - 1) : C20_Good(fileLines[j].fields)
             IN  /\ fileResult.err /= NilErr
                 /\ fileResult.results = << >>
                 /\ IF Len(fileLines[bad].fields) \in {9, 10}
                    THEN /\ fileResult.err[1] /= "Unexpected number of fields in line"
                         /\ fileResult.err[2] \in
                               {fileLines[bad].fields[i] : i \in {1, 2, 7}}
                         /\ ~C20_IsInt(fileResult.err[2])
                    ELSE /\ fileResult.err[1] = "Unexpected number of fields in line"
                         /\ fileResult.err[2] = Len(fileLines[bad].fields)
                         /\ fileResult.err[3] = fileLines[bad].text

\* A line of 10 fields and then a line of 9, both parsed.
C20_Witness ==
    /\ fpc = "parsed" /\ fileStatus = "ok"
    /\ Len(fileLines) = 2
    /\ Len(fileLines[1].fields) = 10
    /\ Len(fileLines[2].fields) = 9
    /\ fileResult.err = NilErr
    /\ Len(fileResult.results) = 2
    /\ fileResult.results[1].DataDir = <<"/", "d", "1">>
    /\ fileResult.results[2].DataDir = << >>
    /\ fileResult.results[2].DbID = 2


\* ------------------------------------------------------------------------
\* Vocabulary of the claims on versions
\* ------------------------------------------------------------------------
\* The versions a target stands for: a component the target does not give
\* is free.
C22_Matching(t) == {w \in SemVers : \A i \in DOMAIN t : w[i] = t[i]}

\* v is a lower version than w.
C22_Lower(v, w) ==
    \/ v[1] < w[1]
    \/ v[1] = w[1] /\ v[2] < w[2]
    \/ v[1] = w[1] /\ v[2] = w[2] /\ v[3] < w[3]

\* ------------------------------------------------------------------------
\* C22: for every version v and every target t written X, X.Y or X.Y.Z,
\* Is(t) is true exactly when v agrees with t on every component t gives,
\* Before(t) exactly when v is lower than every version matching t, and
\* AtLeast(t) exactly when Before(t) is false; so exactly one of Before(t)
\* and AtLeast(t) holds and Is(t) implies AtLeast(t).
\* ------------------------------------------------------------------------
C22_VersionPredicates ==
    vpc = "compared" =>
        LET v == dbversion.SemVer
            t == verdict.target
        IN  /\ verdict.Is = (v \in C22_Matching(t))
            /\ verdict.Before = (\A w \in C22_Matching(t) : C22_Lower(v, w))
            /\ verdict.AtLeast = ~verdict.Before
            /\ verdict.Is => verdict.AtLeast

\* 2.1.0 is 2 and at least 2, and 2.0.0 is before 2.1: here the first.
C22_Witness ==
    /\ vpc = "compared"
    /\ dbversion.SemVer = <<2, 1, 0>>
    /\ verdict.target = <<2>>
    /\ verdict.Is /\ verdict.AtLeast /\ ~verdict.Before


\* ------------------------------------------------------------------------
\* C21 as stated: with no boolean GetSegmentConfiguration selects only
\* primary and coordinator records; whenever the first boolean is true it
\* also selects mirror and standby records; whenever the second boolean is
\* true it selects only mirror and standby records, regardless of the first.
\* ------------------------------------------------------------------------
C21_RowsOf(roles) == {rows[k] : k \in {i \in DOMAIN rows : rows[i].Role \in roles}}

C21_Selected == {selected.results[k] : k \in DOMAIN selected.results}

C21_AsStated ==
    (selected /= << >> /\ selected.err = NilErr) =>
        /\ getMirrors = << >> => C21_Selected = C21_RowsOf({"p"})
        /\ (Len(getMirrors) >= 2 /\ getMirrors[2]) =>
               C21_Selected = C21_RowsOf({"m"})
        /\ (Len(getMirrors) >= 1 /\ getMirrors[1]
                /\ ~(Len(getMirrors) >= 2 /\ getMirrors[2])) =>
               C21_Selected = C21_RowsOf({"p", "m"})


\* ------------------------------------------------------------------------
\* Vocabulary of the claim on version texts
\* ------------------------------------------------------------------------
\* The places <<i, a, b, c>> where the text holds ( name X.Y.Z ... ), X, Y
\* and Z being numbers of a, b and c digits
C23_Found(text, name) ==
    {f \in (1 .. Len(text)) \X (1 .. 2) \X (1 .. 2) \X (1 .. 2) :
        LET i == f[1]
            dot1 == i + 2 + f[2]
            dot2 == dot1 + 1 + f[3]
            after == dot2 + 1 + f[4]
        IN  /\ after <= Len(text)
            /\ text[i] = "(" /\ text[i + 1] = name
            /\ IsNumber(SubSeq(text, i + 2, dot1 - 1)) /\ text[dot1] = "."
            /\ IsNumber(SubSeq(text, dot1 + 1, dot2 - 1)) /\ text[dot2] = "."
            /\ IsNumber(SubSeq(text, dot2 + 1, after - 1))
            /\ ~IsDigit(text[after])
            /\ \E j \in after .. Len(text) : text[j] = ")"}

\* The version X.Y.Z found at f
C23_VersionAt(text, f) ==
    LET dot1 == f[1] + 2 + f[2]
        dot2 == dot1 + 1 + f[3]
    IN  <<DigitsValue(SubSeq(text, f[1] + 2, dot1 - 1), 0),
          DigitsValue(SubSeq(text, dot1 + 1, dot2 - 1), 0),
          DigitsValue(SubSeq(text, dot2 + 1, dot2 + f[4]), 0)>>

\* ------------------------------------------------------------------------
\* C23 as stated: ParseVersionInfo, on any GPDBVersion value and any text s:
\* if s contains (Apache Cloudberry X.Y.Z ...) the result has Type = CBDB and
\* version X.Y.Z; else if s contains (Greenplum Database X.Y.Z ...) it has
\* Type = GPDB and X.Y.Z; for every other s it has Type = Unknown and
\* version 0.0.0; IsGPDB and IsCBDB are never both true.
\* ------------------------------------------------------------------------
C23_AsStated ==
    vpc = "parsed" =>
        LET text == dbversion.VersionString
            cbdb == C23_Found(text, ApacheCloudberry)
            gpdb == C23_Found(text, GreenplumDatabase)
        IN  /\ text = Concat(versionText)
            /\ IF cbdb /= {}
               THEN /\ dbversion.Type = CBDB
                    /\ \E f \in cbdb : dbversion.SemVer = C23_VersionAt(text, f)
               ELSE IF gpdb /= {}
                    THEN /\ dbversion.Type = GPDB
                         /\ \E f \in gpdb : dbversion.SemVer = C23_VersionAt(text, f)
                    ELSE /\ dbversion.Type = Unknown
                         /\ dbversion.SemVer = ZeroSemVer
            /\ ~(IsGPDB(dbversion) /\ IsCBDB(dbversion))


\* ------------------------------------------------------------------------
\* C24 as stated: after execution a command carries an accumulated retry
\* error exactly when some attempt before its last attempt failed, and a
\* terminal error exactly when its final attempt failed.
\* ------------------------------------------------------------------------
C24_AsStated ==
    Returned =>
        \A i \in Units :
            /\ output.Commands[i].RetryError /= NoRetryError <=> EarlierFailed(i)
            /\ output.Commands[i].Error /= NoError <=> FinalFailed(i)

\* ------------------------------------------------------------------------
\* C24 (amended): after execution a command carries an accumulated retry
\* error exactly when some attempt failed, the last one included, and a
\* terminal error exactly when its final attempt failed.
\* ------------------------------------------------------------------------
C24_SomeFailed(i) == \E k \in DOMAIN hist[i] : ~hist[i][k].ok

C24_RetryAndTerminal ==
    Returned =>
        \A i \in Units :
            /\ output.Commands[i].RetryError /= NoRetryError <=> C24_SomeFailed(i)
            /\ output.Commands[i].Error /= NoError <=> FinalFailed(i)

\* A command whose single attempt failed carries both errors.
C24_Witness ==
    /\ Returned
    /\ \E i \in Units :
          /\ Len(hist[i]) = 1 /\ ~hist[i][1].ok
          /\ output.Commands[i].RetryError /= NoRetryError
          /\ output.Commands[i].Error /= NoError

\* ------------------------------------------------------------------------
\* C25: execution changes only result fields.  Scope, Content, Host and
\* CommandString of every command are the same before, during and after
\* ExecuteClusterCommandWithRetries, and the report's Commands is the input
\* list, same length and order; Error, Stdout, Stderr and Completed are set
\* in one step, after the final attempt, to that attempt's outcome, and do
\* not change afterwards.
\* ------------------------------------------------------------------------
C25_Identity(c) == <<c.Scope, c.Content, c.Host, c.CommandString>>

\* The result fields of c are the outcome of the last attempt of h.
C25_IsFinalOutcome(c, h) ==
    IF h = << >>
    THEN c.Stdout = NoText /\ c.Stderr = NoText /\ c.Error = NoError
    ELSE LET last == h[Len(h)]
         IN  /\ c.Stdout = last.n
             /\ c.Stderr = last.n
             /\ c.Error = IF last.ok THEN NoError ELSE last.n

C25_State ==
    /\ \A i \in Units :
          /\ C25_Identity(commandList[i]) = C25_Identity(FreshCommandList(length)[i])
          /\ commandList[i].Completed =>
                /\ pc[i] \in {"send", "exit"}
                /\ begun[i] = Len(hist[i])
                /\ C25_IsFinalOutcome(commandList[i], hist[i])
    /\ Returned => output.Commands = commandList

C25_Step ==
    /\ Len(commandList') = Len(commandList)
    /\ \A i \in Units :
          /\ C25_Identity(commandList'[i]) = C25_Identity(commandList[i])
          /\ commandList[i].Completed => commandList'[i] = commandList[i]
          /\ commandList'[i] /= commandList[i] =>
                /\ commandList'[i].Completed
                /\ pc'[i] = "send"
                /\ C25_IsFinalOutcome(commandList'[i], hist'[i])

C25_FrameEffect == [](C25_State) /\ [][C25_Step]_vars

\* A command that failed once and then succeeded holds the second
\* attempt's output.
C25_Witness ==
    /\ Returned
    /\ length >= 2
    /\ \E i \in Units :
          /\ Len(hist[i]) = 2 /\ ~hist[i][1].ok /\ hist[i][2].ok
          /\ output.Commands[i].Stdout = 2
          /\ output.Commands[i].Error = NoError

\* ------------------------------------------------------------------------
\* C27: in every report returned by ExecuteClusterCommandWithRetries,
\* NumErrors equals the length of FailedCommands and the number of commands
\* with Error /= nil, whatever the order in which the completion signals
\* arrived; FailedCommands and RetriedCommands list their commands in input
\* order.
\* ------------------------------------------------------------------------
C27_InInputOrder(list) ==
    /\ \A k \in DOMAIN list : InSeq(list[k], output.Commands)
    /\ \A a, b \in DOMAIN list :
          a < b => \E i, j \in DOMAIN output.Commands :
                      i < j /\ output.Commands[i] = list[a]
                            /\ output.Commands[j] = list[b]

C27_ErrorCount ==
    Returned =>
        /\ output.NumErrors = Len(output.FailedCommands)
        /\ output.NumErrors =
              Cardinality({i \in DOMAIN output.Commands :
                              output.Commands[i].Error /= NoError})
        /\ C27_InInputOrder(output.FailedCommands)
        /\ C27_InInputOrder(output.RetriedCommands)

\* Two commands failed and one was retried, and the last signal received
\* was the first command's.
C27_Witness ==
    /\ Returned
    /\ length = 3
    /\ index = 1
    /\ output.NumErrors = 2
    /\ Len(output.RetriedCommands) = 1

\* ------------------------------------------------------------------------
\* C28: with maxAttempts <= 0 no attempt is ever executed, yet every command
\* is reported with Completed = true, Error = nil, no RetryError and empty
\* Stdout and Stderr, and the report has NumErrors = 0 and empty
\* FailedCommands and RetriedCommands, as for commands that succeeded on
\* their first attempt.
\* ------------------------------------------------------------------------
C28_NoAttempt ==
    maxAttempts <= 0 =>
        /\ \A i \in Units : begun[i] = 0 /\ hist[i] = << >>
        /\ Returned =>
              /\ \A i \in Units :
                    LET c == output.Commands[i]
                    IN  /\ c.Completed
                        /\ c.Error = NoError
                        /\ c.RetryError = NoRetryError
                        /\ c.Stdout = NoText /\ c.Stderr = NoText
              /\ output.NumErrors = 0
              /\ output.FailedCommands = << >>
              /\ output.RetriedCommands = << >>

\* Three commands were handed over with maxAttempts = -1.
C28_Witness ==
    /\ Returned
    /\ maxAttempts < 0
    /\ length = 3
    /\ \A i \in Units : output.Commands[i].Completed /\ begun[i] = 0


\* ------------------------------------------------------------------------
\* C26: after NewCluster, and after any later sequence of lookups and
\* command generations, the position map and the host map each reference
\* every record of the authoritative sequence exactly once, under the
\* record's own position resp. host, and reference nothing else; the
\* position list is the ascending list of distinct positions; the host list
\* holds each distinct host once in first-seen order; the per-host lookups
\* list a host's nodes in the order of the record list; and no operation
\* changes any of this after construction.
\* ------------------------------------------------------------------------
\* Map m references every record once, under the key field names, and
\* nothing else (a reference is a place in cluster.Segments).
C26_ReferencesAll(m, field) ==
    /\ \A key \in DOMAIN m :
          \A k \in DOMAIN m[key] :
              /\ m[key][k] \in DOMAIN cluster.Segments
              /\ cluster.Segments[m[key][k]][field] = key
    /\ \A i \in DOMAIN cluster.Segments :
          Cardinality({<<key, k>> \in UNION {{key} \X DOMAIN m[key] : key \in DOMAIN m} :
                          m[key][k] = i}) = 1

\* list holds each element of S once, and a before b whenever ranks a < b.
C26_ListsOnce(list, S) ==
    /\ {list[k] : k \in DOMAIN list} = S
    /\ Len(list) = Cardinality(S)

\* The place where host h is first named in the record list
C26_FirstSeen(h) ==
    CHOOSE i \in DOMAIN segConfigs :
        /\ segConfigs[i].Hostname = h
        /\ \A j \in DOMAIN segConfigs : segConfigs[j].Hostname = h => i <= j

\* The records of host h, in the order of the record list
C26_RecordsOf(h) == SelectSeq(segConfigs, LAMBDA seg : seg.Hostname = h)

C26_State ==
    cpc /= "new" =>
        /\ cluster.Segments = segConfigs
        /\ C26_ReferencesAll(cluster.ByContent, "ContentID")
        /\ C26_ReferencesAll(cluster.ByHost, "Hostname")
        /\ C26_ListsOnce(cluster.ContentIDs, Positions)
        /\ \A a, b \in DOMAIN cluster.ContentIDs :
              a < b => cluster.ContentIDs[a] < cluster.ContentIDs[b]
        /\ C26_ListsOnce(cluster.Hostnames, Hosts)
        /\ \A a, b \in DOMAIN cluster.Hostnames :
              a < b => C26_FirstSeen(cluster.Hostnames[a])
                          < C26_FirstSeen(cluster.Hostnames[b])
        /\ \A h \in 1 .. MaxHosts :
              LET recs == C26_RecordsOf(h)
              IN  /\ GetDbidsForHost(cluster, h) = [k \in DOMAIN recs |-> recs[k].DbID]
                  /\ GetContentsForHost(cluster, h) =
                        [k \in DOMAIN recs |-> recs[k].ContentID]
                  /\ GetPortsForHost(cluster, h) = [k \in DOMAIN recs |-> recs[k].Port]
                  /\ GetDirsForHost(cluster, h) = [k \in DOMAIN recs |-> recs[k].DataDir]
        /\ cpc = "gothost" =>
              LET recs == C26_RecordsOf(got.hostname)
              IN  /\ got.Dbids = [k \in DOMAIN recs |-> recs[k].DbID]
                  /\ got.Contents = [k \in DOMAIN recs |-> recs[k].ContentID]
                  /\ got.Ports = [k \in DOMAIN recs |-> recs[k].Port]
                  /\ got.Dirs = [k \in DOMAIN recs |-> recs[k].DataDir]

C26_Step == cpc /= "new" => (cluster' = cluster /\ segConfigs' = segConfigs)

C26_TopologyFixed == [](C26_State) /\ [][C26_Step]_vars

\* A host named second carries two of three records, one of them a mirror
\* listed before its primary, and the host was looked up.
C26_Witness ==
    /\ cpc = "gothost"
    /\ Len(segConfigs) = 3
    /\ segConfigs[1].Role = "m" /\ segConfigs[3].Role = "p"
    /\ segConfigs[1].ContentID = segConfigs[3].ContentID
    /\ got.hostname = 2
    /\ Len(got.Dbids) = 2
    /\ cluster.Hostnames = <<1, 2>>


\* ------------------------------------------------------------------------
\* C29: GenerateSSHCommandList called with a generator that is neither the
\* position-to-string nor the host-to-string shape (the argv-returning
\* shapes of GenerateCommandList included) returns an empty command list
\* without a fatal and without invoking the generator, so the execution
\* that follows runs nothing and reports zero errors.
\* ------------------------------------------------------------------------
C29_SilentlyEmpty ==
    (entry = "GenerateAndExecuteCommand"
         /\ generator \notin {ContentString, HostString}) =>
        /\ cpc /= Fatal
        /\ genCommands = << >>
        /\ genCalls = << >>
        /\ commandList = << >>
        /\ begun = << >>
        /\ Returned =>
              /\ output.NumErrors = 0
              /\ output.Commands = << >>
              /\ output.FailedCommands = << >>
              /\ output.RetriedCommands = << >>

\* An argv-returning generator was passed for a topology of three records
\* with every node in scope, and the report came back empty.
C29_Witness ==
    /\ Returned
    /\ entry = "GenerateAndExecuteCommand"
    /\ generator = ContentArgv
    /\ Len(segConfigs) = 3
    /\ scopeIncludesCoordinator(genScope) /\ scopeIncludesMirrors(genScope)
    /\ output.NumErrors = 0
    /\ output.Commands = << >>

============================================================================
